---- MODULE Spec2Model ----
(***************************************************************************)
(* Model of the video-uploader: the three multipart-upload route handlers  *)
(* (create / complete / abort), the /api/submit notifier, and the browser  *)
(* form controller (uploadFileToR2 + handleSubmit) in its two variants.    *)
(*                                                                         *)
(* Strings are sequences of tokens (a token is a short TLA+ string; the    *)
(* characters the code inspects - space, quote, slash, @, dot, angle       *)
(* brackets - are always tokens of their own).  Byte counts are two-limb   *)
(* numbers [mib, rem] = mib * 2^20 + rem, because 10000 parts of 10 MiB do not *)
(* fit the model checker's integers.                                      *)
(***************************************************************************)
EXTENDS Integers, Sequences, FiniteSets, TLC

\* Every record of the model is written with its fields in this one order, so
\* a record value is in the checker's normal form as soon as it is built (the
\* normal form orders fields by first appearance in the module).
FieldOrder ==
    [ ContentType |-> 0, ETag |-> 0, FROM_EMAIL |-> 0, FROM_NAME |-> 0,
      Key |-> 0, OWNER_EMAIL |-> 0, PUBLIC_FILE_BASE_URL |-> 0,
      PartNumber |-> 0, Parts |-> 0, RESEND_API_KEY |-> 0, UploadId |-> 0,
      be |-> 0, body |-> 0, cmds |-> 0, content |-> 0, contentType |-> 0,
      dir |-> 0, end |-> 0, endpoint |-> 0, error |-> 0, etag |-> 0, ev |-> 0,
      expiresIn |-> 0, exposes |-> 0, file |-> 0, fileUrl |-> 0, filename |-> 0, form |-> 0,
      formRows |-> 0, from |-> 0, hasError |-> 0, html |-> 0, id |-> 0,
      imageFiles |-> 0, imageList |-> 0, imageUploads |-> 0, imageUrls |-> 0,
      index |-> 0, json |-> 0, key |-> 0, kind |-> 0, label |-> 0,
      lastModified |-> 0, location |-> 0, message |-> 0, mib |-> 0,
      name |-> 0, nonce |-> 0, objects |-> 0, ok |-> 0, op |-> 0, open |-> 0,
      part |-> 0, partSize |-> 0, parts |-> 0, phase |-> 0, rem |-> 0,
      reply_to |-> 0, req |-> 0, res |-> 0, sendThrows |-> 0,
      signThrowsAt |-> 0, size |-> 0, start |-> 0, status |-> 0,
      subject |-> 0, submitterEmail |-> 0, ticketId |-> 0, to |-> 0,
      totalParts |-> 0, type |-> 0, uploadId |-> 0, url |-> 0, urls |-> 0,
      value |-> 0, videoFiles |-> 0, videoList |-> 0, videoUploads |-> 0,
      videoUrls |-> 0 ]

VARIABLES
    env,        \* process.env of the server
    apiReq,     \* the request a direct caller sent last: [endpoint, body]
    apiResp,    \* the handler's answer to it: [status, body]
    apiCmds     \* what that handler asked of the storage backend / email provider

apiVars == <<env, apiReq, apiResp, apiCmds>>
\* (the direct-caller specifications leave the browser's variables alone)

VARIABLES
    variant,        \* which page source runs: "page" (page.js) or "email" (part_001)
    form,           \* useState(initialForm)
    imageFiles,     \* useState([])
    videoFiles,     \* useState([])
    imageProgress,  \* useState({})
    videoProgress,  \* useState({})
    status,         \* useState({ type: "idle", message: "" })
    isSubmitting,   \* useState(false)
    pc,             \* where the running handleSubmit is suspended ("idle": not running)
    sub,            \* handleSubmit's closure and locals
    up,             \* uploadFileToR2's locals
    inflight,       \* the requests sent and not yet answered
    nextId,         \* the storage backend's upload-id generator
    s3,             \* the storage backend: open multipart uploads, assembled objects,
                    \* whether its CORS rules expose the ETag header to the page
    outbox,         \* the emails the provider accepted
    log,            \* what the latest submission sent and received, in order
    clicked,        \* submit has been clicked at least once
    laterSteps,     \* what the user did since: edits and further clicks on submit
    redirect        \* part_001's redirect timeout: "none", "armed", "done" (page left)

uiVars == <<form, imageFiles, videoFiles, imageProgress, videoProgress>>
runVars == <<pc, sub, up, inflight>>
worldVars == <<nextId, s3, outbox, log>>
clientVars == <<variant, form, imageFiles, videoFiles, imageProgress, videoProgress,
                status, isSubmitting, pc, sub, up, inflight, nextId, s3, outbox,
                log, clicked, laterSteps, redirect>>
vars == <<env, apiReq, apiResp, apiCmds, variant, form, imageFiles, videoFiles,
          imageProgress, videoProgress, status, isSubmitting, pc, sub, up,
          inflight, nextId, s3, outbox, log, clicked, laterSteps, redirect>>

----------------------------------------------------------------------------
(* JavaScript values *)

\* JS undefined (a missing property, an unset environment variable)
Undefined == <<"%undefined%">>
\* JS null
Null == <<"%null%">>
\* a request body that JSON.parse rejects
InvalidJson == <<"%invalid-json%">>
\* the framework's answer to an exception no handler caught: not a JSON body
NonJsonBody == <<"%non-json%">>

IsString(v) == v # Undefined /\ v # Null

\* JS truthiness of a string-or-undefined value
Truthy(v) == v # Undefined /\ v # Null /\ v # <<>>

\* a || b
Or(a, b) == IF Truthy(a) THEN a ELSE b

IsSpace(c) == c = " "

RECURSIVE TrimStart(_)
TrimStart(s) == IF s # <<>> /\ IsSpace(Head(s)) THEN TrimStart(Tail(s)) ELSE s

RECURSIVE TrimEnd(_)
TrimEnd(s) ==
    IF s # <<>> /\ IsSpace(s[Len(s)]) THEN TrimEnd(SubSeq(s, 1, Len(s) - 1)) ELSE s

\* String.prototype.trim
\* (a trim that trims nothing)
Trim_none(s) == s

Trim(s) == TrimEnd(TrimStart(s))

\* s.replace(/c/g, "")
RECURSIVE RemoveAll(_, _)
RemoveAll(s, c) ==
    IF s = <<>> THEN <<>>
    ELSE IF Head(s) = c THEN RemoveAll(Tail(s), c)
    ELSE <<Head(s)>> \o RemoveAll(Tail(s), c)

\* (a strip of one trailing slash only)
StripTrailingSlashes_one(s) ==
    IF s # <<>> /\ s[Len(s)] = "/" THEN SubSeq(s, 1, Len(s) - 1) ELSE s

\* base.replace(/\/+$/, "")
RECURSIVE StripTrailingSlashes(_)
StripTrailingSlashes(s) ==
    IF s # <<>> /\ s[Len(s)] = "/"
    THEN StripTrailingSlashes(SubSeq(s, 1, Len(s) - 1))
    ELSE s

----------------------------------------------------------------------------
(* Byte counts *)

MiB == 1024 * 1024

Bytes(m, r) == [mib |-> m, rem |-> r]

WLeq(x, y) == x.mib < y.mib \/ (x.mib = y.mib /\ x.rem <= y.rem)
WLess(x, y) == x.mib < y.mib \/ (x.mib = y.mib /\ x.rem < y.rem)
WMin(x, y) == IF WLeq(x, y) THEN x ELSE y
WAdd(x, y) ==
    LET s == x.rem + y.rem
    IN  [mib |-> x.mib + y.mib + (s \div MiB), rem |-> s % MiB]
\* x - y for y <= x
WSub(x, y) ==
    IF x.rem >= y.rem THEN [mib |-> x.mib - y.mib, rem |-> x.rem - y.rem]
    ELSE [mib |-> x.mib - y.mib - 1, rem |-> x.rem + MiB - y.rem]
\* n * x for a whole number of MiB x
WTimes(n, x) == [mib |-> n * x.mib, rem |-> 0]

\* const PART_SIZE = 10 * 1024 * 1024
PART_SIZE == Bytes(10, 0)

\* the storage backend's maximum number of parts
MAX_PARTS == 10000

\* (a division that rounds down instead of up)
MathFloorDiv(size, d) == size.mib \div d.mib

\* Math.ceil(size / d) for a whole number of MiB d
MathCeilDiv(size, d) ==
    LET q == size.mib \div d.mib
        r == size.mib % d.mib
    IN  IF r = 0 /\ size.rem = 0 THEN q ELSE q + 1

----------------------------------------------------------------------------
(* HTTP plumbing shared by the route handlers *)

\* NextResponse.json(body, { status })
Json(code, body) == [body |-> body, json |-> TRUE, status |-> code]

\* an exception that leaves the handler: the framework answers 500, no JSON
Unhandled == [body |-> [error |-> Undefined], json |-> FALSE, status |-> 500]

\* Response.ok
ResOk(res) == res.status >= 200 /\ res.status <= 299

\* what a handler did: its response and the calls it made, in order
Outcome(res, cmds) == [cmds |-> cmds, res |-> res]

Min(a, b) == IF a <= b THEN a ELSE b

----------------------------------------------------------------------------
(* POST /api/upload/create-multipart *)

\* the presigned URL of one part (UploadPartCommand signed for an hour)
PartUrl(key, uploadId, i) ==
    [Key |-> key, PartNumber |-> i, UploadId |-> uploadId, expiresIn |-> 60 * 60]

\* `uploads/${Date.now()}-${Math.random().toString(36).slice(2)}-${filename}`
StorageKey(nonce, filename) == <<"uploads/", nonce, "-">> \o filename

\* (a handler that aborts the upload it created when a URL cannot be signed)
CreateMultipartPOST_cleanup(req, be) ==
    IF ~req.ok THEN Outcome(Unhandled, <<>>)
    ELSE
    LET partCount == MathCeilDiv(req.json.size, PART_SIZE)
    IN  IF partCount > MAX_PARTS
        THEN Outcome(Json(400, [error |-> <<"File too large">>]), <<>>)
        ELSE
        LET key == StorageKey(be.nonce, req.json.filename)
            create == [ContentType |-> Or(req.json.contentType,
                                          <<"application/octet-stream">>),
                       Key |-> key, op |-> "CreateMultipartUpload"]
            throwsAt == IF be.signThrowsAt \in 1..partCount
                        THEN be.signThrowsAt ELSE 0
            signed == IF throwsAt = 0 THEN partCount ELSE throwsAt - 1
            urls == [i \in 1..signed |-> PartUrl(key, be.uploadId, i)]
            signs == [i \in 1..signed |->
                        [Key |-> key, PartNumber |-> i, op |-> "getSignedUrl"]]
            abort == [Key |-> key, PartNumber |-> 0, op |-> "AbortMultipartUpload"]
        IN  IF be.sendThrows THEN Outcome(Unhandled, <<create>>)
            ELSE IF throwsAt # 0 THEN Outcome(Unhandled, <<create>> \o signs \o <<abort>>)
            ELSE Outcome(Json(200, [key |-> key, partSize |-> PART_SIZE,
                                    uploadId |-> be.uploadId, urls |-> urls]),
                         <<create>> \o signs)

\* (a handler that creates the upload first and counts the parts after)
CreateMultipartPOST_checkLate(req, be) ==
    IF ~req.ok THEN Outcome(Unhandled, <<>>)
    ELSE
    LET partCount == MathCeilDiv(req.json.size, PART_SIZE)
        key == StorageKey(be.nonce, req.json.filename)
        create == [ContentType |-> Or(req.json.contentType,
                                      <<"application/octet-stream">>),
                   Key |-> key, op |-> "CreateMultipartUpload"]
    IN  IF be.sendThrows THEN Outcome(Unhandled, <<create>>)
        ELSE IF partCount > MAX_PARTS
        THEN Outcome(Json(400, [error |-> <<"File too large">>]), <<create>>)
        ELSE
        LET throwsAt == IF be.signThrowsAt \in 1..partCount
                        THEN be.signThrowsAt ELSE 0
            signed == IF throwsAt = 0 THEN partCount ELSE throwsAt - 1
            urls == [i \in 1..signed |-> PartUrl(key, be.uploadId, i)]
            signs == [i \in 1..signed |->
                        [Key |-> key, PartNumber |-> i, op |-> "getSignedUrl"]]
        IN  IF throwsAt # 0 THEN Outcome(Unhandled, <<create>> \o signs)
            ELSE Outcome(Json(200, [key |-> key, partSize |-> PART_SIZE,
                                    uploadId |-> be.uploadId, urls |-> urls]),
                         <<create>> \o signs)

\* req: [ok, json: [filename, contentType, size]]
\* be:  the backend's part: [uploadId, nonce, sendThrows, signThrowsAt]
CreateMultipartPOST(req, be) ==
    IF ~req.ok THEN Outcome(Unhandled, <<>>)
    ELSE
    LET partCount == MathCeilDiv(req.json.size, PART_SIZE)
    IN  IF partCount > MAX_PARTS
        THEN Outcome(Json(400, [error |-> <<"File too large">>]), <<>>)
        ELSE
        LET key == StorageKey(be.nonce, req.json.filename)
            create == [ContentType |-> Or(req.json.contentType,
                                          <<"application/octet-stream">>),
                       Key |-> key, op |-> "CreateMultipartUpload"]
            throwsAt == IF be.signThrowsAt \in 1..partCount
                        THEN be.signThrowsAt ELSE 0
            signed == IF throwsAt = 0 THEN partCount ELSE throwsAt - 1
            urls == [i \in 1..signed |-> PartUrl(key, be.uploadId, i)]
            signs == [i \in 1..signed |->
                        [Key |-> key, PartNumber |-> i, op |-> "getSignedUrl"]]
        IN  IF be.sendThrows THEN Outcome(Unhandled, <<create>>)
            ELSE IF throwsAt # 0 THEN Outcome(Unhandled, <<create>> \o signs)
            ELSE Outcome(Json(200, [key |-> key, partSize |-> PART_SIZE,
                                    uploadId |-> be.uploadId, urls |-> urls]),
                         <<create>> \o signs)

----------------------------------------------------------------------------
(* POST /api/upload/complete-multipart *)

\* req: [ok, json: [key, uploadId, parts]];  be: [sendThrows, location]
CompleteMultipartPOST(req, be, e) ==
    IF ~req.ok THEN Outcome(Unhandled, <<>>)
    ELSE
    LET key == req.json.key
        complete == [Key |-> key, Parts |-> req.json.parts,
                     UploadId |-> req.json.uploadId, op |-> "CompleteMultipartUpload"]
        base == e.PUBLIC_FILE_BASE_URL
        fileUrl == IF Truthy(base)
                   THEN StripTrailingSlashes(base) \o <<"/">> \o key
                   ELSE Or(be.location, key)
    IN  IF be.sendThrows THEN Outcome(Unhandled, <<complete>>)
        ELSE Outcome(Json(200, [fileUrl |-> fileUrl, key |-> key, ok |-> TRUE]),
                     <<complete>>)

----------------------------------------------------------------------------
(* POST /api/upload/abort-multipart *)

\* (an abort handler that rejects only when both parameters are missing)
AbortMultipartPOST_and(req, be) ==
    IF ~req.ok THEN Outcome(Unhandled, <<>>)
    ELSE IF ~Truthy(req.json.key) /\ ~Truthy(req.json.uploadId)
    THEN Outcome(Json(400, [error |-> <<"missing">>, ok |-> FALSE]), <<>>)
    ELSE Outcome(Json(200, [error |-> Undefined, ok |-> TRUE]),
                 <<[Key |-> req.json.key, UploadId |-> req.json.uploadId,
                    op |-> "AbortMultipartUpload"]>>)

\* req: [ok, json: [key, uploadId]];  be: [sendThrows, message]
AbortMultipartPOST(req, be) ==
    IF ~req.ok THEN Outcome(Unhandled, <<>>)
    ELSE IF ~Truthy(req.json.key) \/ ~Truthy(req.json.uploadId)
    THEN Outcome(Json(400, [error |->
            <<"Both key and uploadId are required to abort a multipart upload.">>,
            ok |-> FALSE]),
            <<>>)
    ELSE
    LET abort == [Key |-> req.json.key, UploadId |-> req.json.uploadId,
                  op |-> "AbortMultipartUpload"]
    IN  IF be.sendThrows
        THEN Outcome(Json(500, [error |-> be.message, ok |-> FALSE]), <<abort>>)
        ELSE Outcome(Json(200, [error |-> Undefined, ok |-> TRUE]), <<abort>>)

----------------------------------------------------------------------------
(* POST /api/submit *)

\* (an address check that accepts any string)
isValidEmail_any(value) == IsString(value)

\* /^[^\s@]+@[^\s@]+\.[^\s@]+$/.test(value.trim())
isValidEmail(value) ==
    /\ IsString(value)
    /\ \E t \in {Trim(value)} :
        /\ \A i \in 1..Len(t) : ~IsSpace(t[i])
        /\ Cardinality({i \in 1..Len(t) : t[i] = "@"}) = 1
        /\ \E p \in {i \in 1..Len(t) : t[i] = "@"} :
            /\ p > 1
            /\ \E j \in (p + 2)..(Len(t) - 1) : t[j] = "."

\* the index of the last "<" of s, 0 when there is none
LastOpen(s) ==
    LET opens == {i \in 1..Len(s) : s[i] = "<"}
    IN  IF opens = {} THEN 0 ELSE CHOOSE i \in opens : \A j \in opens : j <= i

\* fromEmail.match(/^(.+?)\s*<([^<>]+)>$/): <<namePart, emailPart>> trimmed, or Null
MatchNameAddr(s) ==
    LET k == LastOpen(s)
    IN  IF /\ Len(s) >= 1
           /\ s[Len(s)] = ">"
           /\ k >= 2
           /\ k + 1 <= Len(s) - 1
           /\ \A j \in (k + 1)..(Len(s) - 1) : s[j] # ">"
        THEN <<Trim(SubSeq(s, 1, k - 1)), Trim(SubSeq(s, k + 1, Len(s) - 1))>>
        ELSE Null

StartsEndsWith(s, c) == Len(s) >= 1 /\ s[1] = c /\ s[Len(s)] = c

\* (a sender setting taken as it is, whatever it holds)
buildFromAddress_raw(e) == IF IsString(e.FROM_EMAIL) THEN Trim(e.FROM_EMAIL) ELSE Null

\* the sender address built from FROM_EMAIL and FROM_NAME, or Null
buildFromAddress(e) ==
    LET raw == IF IsString(e.FROM_EMAIL) THEN Trim(e.FROM_EMAIL) ELSE <<>>
        fromName == IF IsString(e.FROM_NAME) THEN Trim(e.FROM_NAME) ELSE <<>>
        fromEmail == IF StartsEndsWith(raw, "\"") \/ StartsEndsWith(raw, "'")
                     THEN Trim(SubSeq(raw, 2, Len(raw) - 1))
                     ELSE raw
        match == MatchNameAddr(fromEmail)
    IN  IF raw = <<>> THEN Null
        ELSE IF isValidEmail(fromEmail)
        THEN IF fromName # <<>>
             THEN fromName \o <<" ", "<">> \o fromEmail \o <<">">>
             ELSE fromEmail
        ELSE IF match # Null /\ isValidEmail(match[2])
        THEN IF match[1] # <<>>
             THEN match[1] \o <<" ", "<">> \o match[2] \o <<">">>
             ELSE match[2]
        ELSE Null

\* form[k] of a parsed JSON object kept as a sequence of [name, type, value]
\* entries (type "str": value is a string; type "arr": an array of strings)
FormGet(entries, k) ==
    LET at == {i \in 1..Len(entries) : entries[i].name = k}
    IN  IF at = {} THEN [name |-> k, type |-> "undefined", value |-> <<>>]
        ELSE entries[CHOOSE i \in at : \A j \in at : j <= i]

\* entries of a form object
StrEntry(k, v) == [name |-> k, type |-> "str", value |-> v]
ArrEntry(k, v) == [name |-> k, type |-> "arr", value |-> v]

\* array.join(sep)
RECURSIVE Join(_, _)
Join(a, sep) ==
    IF a = <<>> THEN <<>>
    ELSE IF Len(a) = 1 THEN a[1]
    ELSE a[1] \o sep \o Join(Tail(a), sep)

formatValue(entry) ==
    IF entry.type = "arr" THEN Join(entry.value, <<",", " ">>)
    ELSE IF entry.type = "str" THEN entry.value
    ELSE <<>>

\* req: [ok, json: [form, videoUrls, imageUrls]]
\* be:  the email provider's part: [sendThrows, hasError, message, id, ticketId]
SubmitPOST(req, be, e) ==
    LET staticFrom == buildFromAddress(e)
        ownerEmail == IF IsString(e.OWNER_EMAIL) THEN Trim(e.OWNER_EMAIL) ELSE <<>>
    IN
    IF ~Truthy(e.RESEND_API_KEY)
    THEN Outcome(Json(400, [error |-> <<"RESEND_API_KEY not configured.">>,
                            id |-> Undefined, ok |-> FALSE]), <<>>)
    ELSE IF staticFrom = Null
    THEN Outcome(Json(400, [error |->
        <<"FROM_EMAIL must be a valid email or formatted as 'Name <email@example.com>'.">>,
        id |-> Undefined, ok |-> FALSE]), <<>>)
    ELSE IF ~isValidEmail(ownerEmail)
    THEN Outcome(Json(400, [error |->
        <<"OWNER_EMAIL must be configured with a valid email address.">>,
        id |-> Undefined, ok |-> FALSE]), <<>>)
    ELSE IF ~req.ok
    THEN Outcome(Json(400, [error |-> <<"Invalid JSON payload.">>,
                            id |-> Undefined, ok |-> FALSE]), <<>>)
    ELSE
    LET entries == req.json.form
        emailEntry == FormGet(entries, "email")
        submitterEmail == IF emailEntry.type = "str"
                          THEN Trim(emailEntry.value) ELSE <<>>
        replyTo == IF isValidEmail(submitterEmail) THEN submitterEmail ELSE Undefined
        subject == <<"New video submission">>
                   \o (IF submitterEmail # <<>>
                       THEN <<" from ">> \o submitterEmail ELSE <<>>)
                   \o <<" · #", be.ticketId>>
        html == [formRows |-> [i \in 1..Len(entries) |->
                                 [name |-> entries[i].name,
                                  value |-> formatValue(entries[i])]],
                 imageList |-> req.json.imageUrls,
                 submitterEmail |-> submitterEmail,
                 videoList |-> req.json.videoUrls]
        send == [from |-> staticFrom, html |-> html, op |-> "emails.send",
                 reply_to |-> replyTo, subject |-> subject, to |-> ownerEmail]
    IN  IF be.sendThrows
        THEN Outcome(Json(500, [error |-> <<"Failed to send email with Resend.">>,
                                id |-> Undefined, ok |-> FALSE]), <<send>>)
        ELSE IF be.hasError
        THEN Outcome(Json(502, [error |-> Or(be.message,
                                             <<"Resend reported an error.">>),
                                id |-> Undefined, ok |-> FALSE]), <<send>>)
        ELSE Outcome(Json(200, [error |-> Undefined, id |-> be.id, ok |-> TRUE]),
                     <<send>>)

----------------------------------------------------------------------------
(* The browser: files, selections, form *)

\* 25 MB = 23 MiB + 882752 B
TwentyFiveMB == Bytes(23, 882752)

\* `${file.size}`
SizeStr(size) ==
    CASE size = Bytes(0, 0) -> "0"
      [] size = Bytes(0, 1) -> "1"
      [] size = Bytes(10, 1) -> "10485761"
      [] size = TwentyFiveMB -> "25000000"
      [] OTHER -> "size"

\* File objects the user can pick (content tells two files of one name apart)
File(content, lastModified, name, size, type) ==
    [content |-> content, lastModified |-> lastModified, name |-> name,
     size |-> size, type |-> type]

PhotoA == File("photo-a", <<"1700000000001">>, <<"a", ".", "png">>, Bytes(0, 1),
               <<"image/png">>)
\* an empty file
PhotoB == File("photo-b", Undefined, <<"b", ".", "png">>, Bytes(0, 0), <<>>)
\* one byte more than a part
PhotoC == File("photo-c", <<"1700000000002">>, <<"c", ".", "jpg">>, Bytes(10, 1),
               <<"image/jpeg">>)
Clip == File("clip", <<"1700000000003">>, <<"clip", ".", "mp4">>, TwentyFiveMB,
             <<"video/mp4">>)

ImageCandidates == { PhotoA, PhotoB, PhotoC }
VideoCandidates == { Clip }

\* const makeFileKey = (file) => `${file.name}-${file.size}-${file.lastModified ?? ""}`
makeFileKey(file) ==
    file.name \o <<"-", SizeStr(file.size), "-">>
    \o (IF file.lastModified = Undefined \/ file.lastModified = Null
        THEN <<>> ELSE file.lastModified)

KeysOf(files) == { makeFileKey(files[i]) : i \in 1..Len(files) }

\* (a list that takes every selected file as a new entry)
MapSet_append(list, file) == Append(list, file)

\* merged.set(makeFileKey(file), file) on a Map: a present key keeps its place
MapSet(list, file) ==
    IF \E i \in 1..Len(list) : makeFileKey(list[i]) = makeFileKey(file)
    THEN [i \in 1..Len(list) |->
            IF makeFileKey(list[i]) = makeFileKey(file) THEN file ELSE list[i]]
    ELSE Append(list, file)

\* the updater of setImageFiles / setVideoFiles in handleImageChange / handleVideoChange
RECURSIVE MergeFiles(_, _)
MergeFiles(prev, files) ==
    IF files = <<>> THEN prev
    ELSE MergeFiles(MapSet(prev, Head(files)), Tail(files))

\* progress is kept as <<done, of>>, standing for (done / of) * 100
ZeroProgress == <<0, 1>>

\* the updater of setImageProgress / setVideoProgress on a selection
AddProgress(prev, files) ==
    LET new == KeysOf(files) \ DOMAIN prev
    IN  [k \in DOMAIN prev \cup new |-> IF k \in DOMAIN prev THEN prev[k] ELSE ZeroProgress]

\* prev.filter((file) => makeFileKey(file) !== fileKey)
RECURSIVE FilterOut(_, _)
FilterOut(list, fileKey) ==
    IF list = <<>> THEN <<>>
    ELSE IF makeFileKey(Head(list)) = fileKey THEN FilterOut(Tail(list), fileKey)
    ELSE <<Head(list)>> \o FilterOut(Tail(list), fileKey)

\* const { [fileKey]: _removed, ...rest } = prev
DropKey(prev, fileKey) == [k \in DOMAIN prev \ {fileKey} |-> prev[k]]

\* setProgress((prev) => ({ ...prev, [fileKey]: progress }))
PutKey(prev, fileKey, progress) ==
    [k \in DOMAIN prev \cup {fileKey} |-> IF k = fileKey THEN progress ELSE prev[k]]

\* the fields validateBeforeSubmit reads; "email" exists in the e-mail variant only
FormFields(v) ==
    IF v = "email"
    THEN {"email", "playerFirstName", "playerLastName", "videoCutInstructions"}
    ELSE {"playerFirstName", "playerLastName", "videoCutInstructions"}

\* initialForm
initialForm(v) == [f \in FormFields(v) |-> <<>>]

\* what a user may type into a field
FieldValues == { <<>>, <<" ">>, <<"Jane">> }

Status(type, message) == [message |-> message, type |-> type]

\* (a validation that does not ask for cut instructions)
validateBeforeSubmit_lax(v, fm, images, videos) ==
    IF v = "email" /\ Trim(fm["email"]) = <<>>
    THEN Status("error", <<"Email is required.">>)
    ELSE IF Trim(fm["playerFirstName"]) = <<>> \/ Trim(fm["playerLastName"]) = <<>>
    THEN Status("error", <<"Player name is required.">>)
    ELSE IF Len(images) = 0
    THEN Status("error", <<"Please upload at least one image.">>)
    ELSE IF Len(videos) = 0
    THEN Status("error", <<"Please upload at least one video.">>)
    ELSE Status("idle", <<>>)

\* validateBeforeSubmit: the status it sets, or idle when it returns true
validateBeforeSubmit(v, fm, images, videos) ==
    IF v = "email" /\ Trim(fm["email"]) = <<>>
    THEN Status("error", <<"Email is required.">>)
    ELSE IF Trim(fm["playerFirstName"]) = <<>> \/ Trim(fm["playerLastName"]) = <<>>
    THEN Status("error", <<"Player name is required.">>)
    ELSE IF Trim(fm["videoCutInstructions"]) = <<>>
    THEN Status("error", <<"Cut instructions are required.">>)
    ELSE IF Len(images) = 0
    THEN Status("error", <<"Please upload at least one image.">>)
    ELSE IF Len(videos) = 0
    THEN Status("error", <<"Please upload at least one video.">>)
    ELSE Status("idle", <<>>)

----------------------------------------------------------------------------
(* The browser: uploadFileToR2 and handleSubmit, one step per await *)

Digits == <<"1", "2", "3", "4", "5", "6", "7", "8", "9", "10", "11", "12">>

\* the UploadId the backend hands out for its n-th multipart upload
UploadIdOf(n) == <<"upload-", Digits[n]>>

\* urls[index] of a JS array: undefined past the end
NoUrl == [Key |-> Undefined, PartNumber |-> 0, UploadId |-> Undefined, expiresIn |-> 0]
UrlAt(urls, index) == IF index + 1 <= Len(urls) THEN urls[index + 1] ELSE NoUrl

NoUp ==
    [file |-> "", index |-> 0, key |-> Undefined, partSize |-> Bytes(0, 0),
     parts |-> <<>>, totalParts |-> 0, uploadId |-> Undefined, urls |-> <<>>]

NoSub ==
    [form |-> <<>>, imageFiles |-> <<>>, imageUploads |-> <<>>, index |-> 0,
     phase |-> "none", videoFiles |-> <<>>, videoUploads |-> <<>>]

\* (a loop that reads its list from the end)
FileOf_reversed(s) ==
    IF s.phase = "image" THEN s.imageFiles[Len(s.imageFiles) - s.index]
    ELSE s.videoFiles[Len(s.videoFiles) - s.index]

\* const file = imageFiles[index] / videoFiles[index]
FileOf(s) ==
    IF s.phase = "image" THEN s.imageFiles[s.index + 1] ELSE s.videoFiles[s.index + 1]

\* the file uploadFileToR2 is working on
CurrentFile == FileOf(sub)

\* one entry of the log
Ev(dir, kind, file, ok, part, code, uploadId) ==
    [dir |-> dir, etag |-> Undefined, file |-> file, kind |-> kind, ok |-> ok,
     part |-> part, status |-> code, uploadId |-> uploadId]

ReqEv(kind, file, part, uploadId) == Ev("req", kind, file, FALSE, part, 0, uploadId)

\* the response to a request, or its rejection (status 0)
ResEv(kind, file, part, res, uploadId) ==
    Ev("res", kind, file, ResOk(res), part, res.status, uploadId)

\* the response to the PUT of a part, with what headers.get("ETag") gives on it
PutResEv(file, part, res, uploadId, header) ==
    [ResEv("put", file, part, res, uploadId) EXCEPT !.etag = header]

\* handleSubmit is entered (ok: validation passed) and left (ok: success)
StartEv(ok) == Ev("start", "handleSubmit", "", ok, 0, 0, Undefined)
EndEv(ok) == Ev("end", "handleSubmit", "", ok, 0, 0, Undefined)

\* a fetch that rejected
Rejected == [body |-> [error |-> Undefined], json |-> FALSE, status |-> 0]

\* fetch("/api/upload/create-multipart", ...) of uploadFileToR2
CreateRequest(file) ==
    [body |-> [contentType |-> Or(file.type, <<"application/octet-stream">>),
               filename |-> file.name, size |-> file.size],
     kind |-> "create", url |-> NoUrl]

\* (a client that sends a whole part size each time, past the end of the file)
PutRequest_fullPart(file, u, index) ==
    LET start == WTimes(index, u.partSize)
        end == WAdd(start, u.partSize)
    IN  [body |-> [end |-> end, file |-> file.content, start |-> start],
         kind |-> "put", url |-> UrlAt(u.urls, index)]

\* fetch(urls[index], { method: "PUT", body: file.slice(start, end) })
PutRequest(file, u, index) ==
    LET start == WTimes(index, u.partSize)
        end == WMin(WAdd(start, u.partSize), file.size)
    IN  [body |-> [end |-> end, file |-> file.content, start |-> start],
         kind |-> "put", url |-> UrlAt(u.urls, index)]

\* fetch("/api/upload/complete-multipart", ...)
CompleteRequest(u) ==
    [body |-> [key |-> u.key, parts |-> u.parts, uploadId |-> u.uploadId],
     kind |-> "complete", url |-> NoUrl]

\* the form object of the /api/submit body, in the order the code writes it
SubmitForm(s) ==
    (IF "email" \in DOMAIN s.form THEN <<StrEntry("email", s.form["email"])>> ELSE <<>>)
    \o <<StrEntry("playerFirstName", s.form["playerFirstName"]),
         StrEntry("playerLastName", s.form["playerLastName"]),
         StrEntry("videoCutInstructions", s.form["videoCutInstructions"]),
         ArrEntry("uploadedImageKeys",
                  [i \in 1..Len(s.imageUploads) |-> s.imageUploads[i].key]),
         ArrEntry("uploadedVideoKeys",
                  [i \in 1..Len(s.videoUploads) |-> s.videoUploads[i].key])>>

\* (a client that leaves the video URLs out of the /api/submit body)
SubmitRequest_noVideoUrls(s) ==
    [body |-> [form |-> SubmitForm(s),
               imageUrls |-> [i \in 1..Len(s.imageUploads) |-> s.imageUploads[i].fileUrl],
               videoUrls |-> <<>>],
     kind |-> "submit", url |-> NoUrl]

\* fetch("/api/submit", ...)
SubmitRequest(s) ==
    [body |-> [form |-> SubmitForm(s),
               imageUrls |-> [i \in 1..Len(s.imageUploads) |-> s.imageUploads[i].fileUrl],
               videoUrls |-> [i \in 1..Len(s.videoUploads) |-> s.videoUploads[i].fileUrl]],
     kind |-> "submit", url |-> NoUrl]

\* uploadFileToR2(file, ...) runs to its first await: the create request is out
SendCreate(pre, s, file) ==
    /\ sub' = s
    /\ up' = [NoUp EXCEPT !.file = file.content]
    /\ pc' = "create"
    /\ inflight' = {CreateRequest(file)}
    /\ log' = pre \o <<ReqEv("create", file.content, 0, Undefined)>>

\* the loop body of uploadFileToR2 runs to its await: the PUT of part index + 1 is out
SendPut(pre, u, index) ==
    /\ up' = [u EXCEPT !.index = index]
    /\ pc' = "put"
    /\ inflight' = {PutRequest(CurrentFile, u, index)}
    /\ log' = pre \o <<ReqEv("put", u.file, index + 1, u.uploadId)>>
    /\ UNCHANGED sub

\* (a client that asks for the completion twice)
SendComplete_twice(pre, u) ==
    /\ up' = u
    /\ pc' = "complete"
    /\ inflight' = {CompleteRequest(u)}
    /\ log' = pre \o <<ReqEv("complete", u.file, 0, u.uploadId),
                               ReqEv("complete", u.file, 0, u.uploadId)>>
    /\ UNCHANGED sub

\* the loop of uploadFileToR2 is over: the complete request is out
SendComplete(pre, u) ==
    /\ up' = u
    /\ pc' = "complete"
    /\ inflight' = {CompleteRequest(u)}
    /\ log' = pre \o <<ReqEv("complete", u.file, 0, u.uploadId)>>
    /\ UNCHANGED sub

\* both loops of handleSubmit are over: the /api/submit request is out
SendSubmit(pre, s) ==
    /\ sub' = s
    /\ up' = NoUp
    /\ pc' = "submit"
    /\ inflight' = {SubmitRequest(s)}
    /\ log' = pre \o <<ReqEv("submit", "", 0, Undefined)>>

\* (a catch with no finally after it)
Throw_stuck(pre, message) ==
    /\ status' = Status("error", message)
    /\ isSubmitting' = TRUE
    /\ pc' = "idle"
    /\ sub' = NoSub
    /\ up' = NoUp
    /\ inflight' = {}
    /\ log' = pre \o <<EndEv(FALSE)>>

\* (a catch that reports the failure as a success)
Throw_success(pre, message) ==
    /\ status' = Status("success", message)
    /\ isSubmitting' = FALSE
    /\ pc' = "idle"
    /\ sub' = NoSub
    /\ up' = NoUp
    /\ inflight' = {}
    /\ log' = pre \o <<EndEv(FALSE)>>

\* an Error reaches the catch of handleSubmit, then its finally
Throw(pre, message) ==
    /\ status' = Status("error", message)
    /\ isSubmitting' = FALSE
    /\ pc' = "idle"
    /\ sub' = NoSub
    /\ up' = NoUp
    /\ inflight' = {}
    /\ log' = pre \o <<EndEv(FALSE)>>

\* the message of the TypeError a failed fetch rejects with
FetchRejected == <<"Failed to fetch">>

\* (a client that reports every failed call the same way)
ErrorOf_generic(res, fallback) == <<"Something went wrong.">>

\* error?.error || fallback, after res.json().catch(() => ({}))
ErrorOf(res, fallback) == IF res.json THEN Or(res.body.error, fallback) ELSE fallback

\* useState({})
EmptyMap == [k \in {} |-> ZeroProgress]

\* the component as first rendered, nothing sent yet
PageInit(v, exposes) ==
    /\ variant = v
    /\ form = initialForm(v)
    /\ imageFiles = <<>>
    /\ videoFiles = <<>>
    /\ imageProgress = EmptyMap
    /\ videoProgress = EmptyMap
    /\ status = Status("idle", <<>>)
    /\ isSubmitting = FALSE
    /\ pc = "idle"
    /\ sub = NoSub
    /\ up = NoUp
    /\ inflight = {}
    /\ nextId = 1
    /\ s3 = [exposes |-> exposes, objects |-> {}, open |-> {}, parts |-> {}]
    /\ outbox = <<>>
    /\ log = <<>>
    /\ clicked = FALSE
    /\ laterSteps = 0
    /\ redirect = "none"

----------------------------------------------------------------------------
(* Direct callers of the upload routes: any request, any backend behaviour *)

ApiSizes ==
    { Bytes(0, 0), Bytes(0, 1), Bytes(9, MiB - 1), Bytes(10, 0), Bytes(10, 1),
      Bytes(20, 0), TwentyFiveMB,
      Bytes(10 * MAX_PARTS - 1, MiB - 1), Bytes(10 * MAX_PARTS, 0),
      Bytes(10 * MAX_PARTS, 1), Bytes(10 * (MAX_PARTS + 1), 0),
      Bytes(10 * (MAX_PARTS + 1), 1) }

ApiFilenames == { <<"clip", ".", "mp4">>, <<"my", " ", "photo", ".", "png">> }
ApiContentTypes == { Undefined, <<>>, <<"video/mp4">> }
ApiKeys == { Undefined, <<>>, StorageKey("n1", <<"clip", ".", "mp4">>) }
ApiUploadIds == { Undefined, <<>>, <<"id", "1">> }
BackendLocations == { Undefined, <<>>, <<"https://bucket.s3", "/", "k">> }
PublicBases ==
    { Undefined, <<>>, <<"/">>, <<"https://cdn.example">>,
      <<"https://cdn.example", "/">>, <<"https://cdn.example", "/", "/">> }

\* the longest parts list a direct caller sends
MaxApiParts == 3

ApiPart(i) == [ETag |-> <<"etag", "-", <<"a", "b", "c", "d">>[i]>>, PartNumber |-> i]

RECURSIVE SeqsUpTo(_, _)
SeqsUpTo(S, n) ==
    IF n = 0 THEN { <<>> }
    ELSE LET shorter == SeqsUpTo(S, n - 1)
         IN  shorter \cup { Append(q, x) : q \in shorter, x \in S }

ApiPartsLists == SeqsUpTo({ ApiPart(i) : i \in 1..MaxApiParts }, MaxApiParts)

NoRequest == [endpoint |-> "none"]
NoResponse == [body |-> [error |-> Undefined], json |-> FALSE, status |-> 0]

BlankEnv ==
    [FROM_EMAIL |-> Undefined, FROM_NAME |-> Undefined, OWNER_EMAIL |-> Undefined,
     PUBLIC_FILE_BASE_URL |-> Undefined, RESEND_API_KEY |-> Undefined]

UploadApiInit ==
    /\ env \in { [BlankEnv EXCEPT !.PUBLIC_FILE_BASE_URL = b] : b \in PublicBases }
    /\ apiReq = NoRequest
    /\ apiResp = NoResponse
    /\ apiCmds = <<>>
    /\ PageInit("page", TRUE)

\* the handlers keep no state between requests: one exchange per behaviour
Fresh == apiReq = NoRequest

\* the handler runs on the request; the state keeps the exchange
Exchange(endpoint, req, be, out) ==
    /\ apiReq' = [be |-> be, endpoint |-> endpoint, req |-> req]
    /\ apiResp' = out.res
    /\ apiCmds' = out.cmds
    /\ UNCHANGED <<env, clientVars>>

ApiCreate ==
    /\ Fresh
    /\ \E ok \in BOOLEAN, f \in ApiFilenames, ct \in ApiContentTypes, sz \in ApiSizes,
       nonce \in {"n1", "n2"}, throws \in BOOLEAN, signThrowsAt \in 0..2 :
        LET req == [json |-> [contentType |-> ct, filename |-> f, size |-> sz],
                    ok |-> ok]
            be == [nonce |-> nonce, sendThrows |-> throws,
                   signThrowsAt |-> signThrowsAt, uploadId |-> <<"id", "1">>]
        IN  Exchange("create-multipart", req, be, CreateMultipartPOST(req, be))

ApiComplete ==
    /\ Fresh
    /\ \E ok \in BOOLEAN, k \in ApiKeys, u \in ApiUploadIds, ps \in ApiPartsLists,
       throws \in BOOLEAN, loc \in BackendLocations :
        LET req == [json |-> [key |-> k, parts |-> ps, uploadId |-> u], ok |-> ok]
            be == [location |-> loc, sendThrows |-> throws]
        IN  Exchange("complete-multipart", req, be,
                     CompleteMultipartPOST(req, be, env))

ApiAbort ==
    /\ Fresh
    /\ \E ok \in BOOLEAN, k \in ApiKeys \cup {Null}, u \in ApiUploadIds \cup {Null},
          throws \in BOOLEAN :
        LET req == [json |-> [key |-> k, uploadId |-> u], ok |-> ok]
            be == [message |-> <<"NoSuchUpload">>, sendThrows |-> throws]
        IN  Exchange("abort-multipart", req, be, AbortMultipartPOST(req, be))

UploadApiNext == ApiCreate \/ ApiComplete \/ ApiAbort

SpecUploadApi == UploadApiInit /\ [][UploadApiNext]_vars

----------------------------------------------------------------------------
(* Direct callers of /api/submit: any configuration, any request *)

OpsAddr == <<"ops", "@", "example", ".", "com">>
OwnerAddr == <<"owner", "@", "example", ".", "com">>

ApiKeySettings == { Undefined, <<>>, <<"re_123">> }

\* FROM_EMAIL settings the handler is meant to accept ...
GoodFromEmails ==
    { OpsAddr,
      <<" ">> \o OpsAddr \o <<" ">>,
      <<"\"">> \o OpsAddr \o <<"\"">>,
      <<"Ops", " ", "Team", " ", "<">> \o OpsAddr \o <<">">>,
      <<"Ops", "<", " ">> \o OpsAddr \o <<" ", ">">>,
      <<"<">> \o OpsAddr \o <<">">> }

\* ... and to refuse
BadFromEmails ==
    { Undefined, <<>>, <<" ">>,
      <<"not-an-email">>,
      <<"Ops", " ", "Team", " ", "<", "not-an-email", ">">>,
      <<"ops", "@", "example">>,
      <<"ops", "@", "@", "example", ".", "com">>,
      <<"Ops", " ", "Team", " ", "<">> \o OpsAddr }

FromNames == { Undefined, <<"Clips">> }

GoodOwnerEmails == { OwnerAddr, <<" ">> \o OwnerAddr }
BadOwnerEmails ==
    { Undefined, <<>>, <<"owner", "@", "example">>,
      <<"owner", " ", "@", "example", ".", "com">> }

SubmitEnvs ==
    { [BlankEnv EXCEPT !.RESEND_API_KEY = k, !.FROM_EMAIL = f,
                       !.FROM_NAME = n, !.OWNER_EMAIL = o] :
        k \in ApiKeySettings, f \in GoodFromEmails \cup BadFromEmails,
        n \in FromNames, o \in GoodOwnerEmails \cup BadOwnerEmails }

JaneAddr == <<"jane", "@", "mail", ".", "org">>

ApiForms ==
    { <<>>,
      <<StrEntry("playerFirstName", <<"Jane">>)>>,
      <<StrEntry("email", <<" ">> \o JaneAddr), StrEntry("playerFirstName", <<"Jane">>)>>,
      <<StrEntry("email", <<"jane", "@", "mail">>)>>,
      <<ArrEntry("email", <<JaneAddr>>)>> }

ApiUrlLists ==
    { <<>>, <<<<"https://cdn.example", "/", "uploads/", "n1", "-", "a">>>> }

SubmitApiInit ==
    /\ env \in SubmitEnvs
    /\ apiReq = NoRequest
    /\ apiResp = NoResponse
    /\ apiCmds = <<>>
    /\ PageInit("page", TRUE)

ApiSubmit ==
    /\ Fresh
    /\ \E ok \in BOOLEAN, fm \in ApiForms, urls \in ApiUrlLists,
       throws \in BOOLEAN, hasError \in BOOLEAN,
       message \in {Undefined, <<"rate limited">>} :
        LET req == [json |-> [form |-> fm, imageUrls |-> urls, videoUrls |-> urls],
                    ok |-> ok]
            be == [hasError |-> hasError, id |-> <<"msg-1">>, message |-> message,
                   sendThrows |-> throws, ticketId |-> "1a2b3c4d"]
        IN  Exchange("submit", req, be, SubmitPOST(req, be, env))

SubmitApiNext == ApiSubmit

SpecSubmitApi == SubmitApiInit /\ [][SubmitApiNext]_vars

----------------------------------------------------------------------------
(* The page in a browser, the routes behind it, the storage backend *)

\* what the user does after the first click on submit: this many further
\* edits of the form or the selections, or further clicks on submit
MaxLaterSteps == 1

\* the configuration the deployed routes run with
PageEnv ==
    [FROM_EMAIL |-> <<"Ops", " ", "Team", " ", "<">> \o OpsAddr \o <<">">>,
     FROM_NAME |-> Undefined, OWNER_EMAIL |-> OwnerAddr,
     PUBLIC_FILE_BASE_URL |-> <<"https://cdn.example", "/">>,
     RESEND_API_KEY |-> <<"re_123">>]

Init ==
    /\ env = PageEnv
    /\ apiReq = NoRequest
    /\ apiResp = NoResponse
    /\ apiCmds = <<>>
    /\ \E v \in {"page", "email"}, exposes \in BOOLEAN : PageInit(v, exposes)

\* the user may still act (a handler run that changes nothing is a stuttering step)
MayAct == redirect # "done" /\ (~clicked \/ laterSteps < MaxLaterSteps)
Acted == laterSteps' = IF clicked THEN laterSteps + 1 ELSE laterSteps
MayEdit == MayAct
Edited == Acted /\ UNCHANGED clicked

\* what one use of a file input can select
Selections(candidates) ==
    { q \in SeqsUpTo(candidates, Cardinality(candidates)) :
        /\ q # <<>>
        /\ \A i, j \in 1..Len(q) : i # j => q[i] # q[j] }

\* handleChange(field)(event)
HandleChange ==
    /\ MayEdit
    /\ \E field \in FormFields(variant), value \in FieldValues :
        /\ form[field] # value
        /\ form' = [form EXCEPT ![field] = value]
    /\ Edited
    /\ UNCHANGED <<env, apiReq, apiResp, apiCmds, variant, redirect, imageFiles, videoFiles,
                   imageProgress, videoProgress, status, isSubmitting, runVars,
                   worldVars>>

handleImageChange(candidates) ==
    /\ MayEdit
    /\ \E files \in Selections(candidates) :
        /\ MergeFiles(imageFiles, files) # imageFiles
        /\ imageFiles' = MergeFiles(imageFiles, files)
        /\ imageProgress' = AddProgress(imageProgress, files)
    /\ Edited
    /\ UNCHANGED <<env, apiReq, apiResp, apiCmds, variant, redirect, form, videoFiles,
                   videoProgress, status, isSubmitting, runVars, worldVars>>

HandleImageChange == handleImageChange(ImageCandidates)

\* the remove button of a listed image
HandleRemoveImage ==
    /\ MayEdit
    /\ \E i \in 1..Len(imageFiles) :
        LET fileKey == makeFileKey(imageFiles[i])
        IN  /\ imageFiles' = FilterOut(imageFiles, fileKey)
            /\ imageProgress' = DropKey(imageProgress, fileKey)
    /\ Edited
    /\ UNCHANGED <<env, apiReq, apiResp, apiCmds, variant, redirect, form, videoFiles,
                   videoProgress, status, isSubmitting, runVars, worldVars>>

handleVideoChange(candidates) ==
    /\ MayEdit
    /\ \E files \in Selections(candidates) :
        /\ MergeFiles(videoFiles, files) # videoFiles
        /\ videoFiles' = MergeFiles(videoFiles, files)
        /\ videoProgress' = AddProgress(videoProgress, files)
    /\ Edited
    /\ UNCHANGED <<env, apiReq, apiResp, apiCmds, variant, redirect, form, imageFiles,
                   imageProgress, status, isSubmitting, runVars, worldVars>>

HandleVideoChange == handleVideoChange(VideoCandidates)

\* the remove button of a listed video
HandleRemoveVideo ==
    /\ MayEdit
    /\ \E i \in 1..Len(videoFiles) :
        LET fileKey == makeFileKey(videoFiles[i])
        IN  /\ videoFiles' = FilterOut(videoFiles, fileKey)
            /\ videoProgress' = DropKey(videoProgress, fileKey)
    /\ Edited
    /\ UNCHANGED <<env, apiReq, apiResp, apiCmds, variant, redirect, form, imageFiles,
                   imageProgress, status, isSubmitting, runVars, worldVars>>

\* useEffect(() => { if (status.type === "success") { ... setTimeout(..., 2000);
\* return () => clearTimeout(timeout); } }, [status.type]) of part_001; page.js
\* has no such effect
SuccessEffect(v, type) ==
    IF v = "email" /\ type = "success" THEN "armed" ELSE "none"

\* (a submit button that is never disabled)
SubmitDisabled_never == FALSE

\* <button type="submit" disabled={isSubmitting}>
SubmitDisabled == isSubmitting

\* the submit button: handleSubmit up to its first await
HandleSubmit ==
    /\ ~SubmitDisabled
    /\ MayAct
    /\ clicked' = TRUE
    /\ Acted
    /\ LET verdict == validateBeforeSubmit(variant, form, imageFiles, videoFiles)
       IN  IF verdict.type = "error"
           THEN /\ status' = verdict
                /\ log' = <<StartEv(FALSE)>>
                /\ UNCHANGED <<isSubmitting, pc, sub, up, inflight>>
           ELSE /\ status' = Status("idle", <<>>)
                /\ isSubmitting' = TRUE
                /\ SendCreate(<<StartEv(TRUE)>>,
                              [NoSub EXCEPT !.form = form, !.imageFiles = imageFiles,
                                            !.phase = "image", !.videoFiles = videoFiles],
                              imageFiles[1])
    /\ redirect' = SuccessEffect(variant, status'.type)
    /\ UNCHANGED <<env, apiReq, apiResp, apiCmds, variant, uiVars, nextId, s3,
                   outbox>>

\* what the backend puts in Date.now()/Math.random() of its n-th key
Nonces == <<"n1", "n2", "n3", "n4", "n5", "n6", "n7", "n8", "n9", "n10", "n11", "n12">>

\* the ETag header the backend answers the PUT of a part with
ETagOf(partNumber) == <<"\"", "etag", "-", Digits[partNumber], "\"">>

TheRequest == CHOOSE r \in inflight : TRUE

\* the create-multipart request is answered: uploadFileToR2 up to the first PUT
CreateResponse ==
    /\ pc = "create"
    /\ \E o \in {"ok", "sendThrows", "signThrows", "rejected"} :
        LET be == [nonce |-> Nonces[nextId], sendThrows |-> (o = "sendThrows"),
                   signThrowsAt |-> (IF o = "signThrows" THEN 1 ELSE 0),
                   uploadId |-> UploadIdOf(nextId)]
            out == IF o = "rejected" THEN Outcome(Rejected, <<>>)
                   ELSE CreateMultipartPOST([json |-> TheRequest.body, ok |-> TRUE], be)
            res == out.res
            created == out.cmds # <<>> /\ ~be.sendThrows
            got == IF ResOk(res) THEN res.body.uploadId ELSE Undefined
            ev == ResEv("create", up.file, 0, res, got)
        IN  /\ nextId' = IF created THEN nextId + 1 ELSE nextId
            /\ s3' = IF created THEN [s3 EXCEPT !.open = @ \cup {be.uploadId}] ELSE s3
            /\ IF o = "rejected"
               THEN Throw(Append(log, ev), FetchRejected)
               ELSE IF ~ResOk(res)
               THEN Throw(Append(log, ev), ErrorOf(res, <<"Failed to start upload">>))
               ELSE /\ SendPut(Append(log, ev),
                               [up EXCEPT !.key = res.body.key,
                                          !.partSize = res.body.partSize,
                                          !.totalParts = IF Len(res.body.urls) = 0
                                                         THEN 1 ELSE Len(res.body.urls),
                                          !.uploadId = res.body.uploadId,
                                          !.urls = res.body.urls],
                               0)
                    /\ UNCHANGED <<status, isSubmitting>>
    /\ UNCHANGED <<env, apiReq, apiResp, apiCmds, variant, redirect, uiVars, outbox, clicked,
                   laterSteps>>

\* headers.get("ETag") turned into the token of the part
\* page.js:     (uploadRes.headers.get("ETag") || "").replace(/"/g, "")
\* part_001:    uploadRes.headers.get("ETag") || uploadRes.headers.get("etag") || ""
EtagFrom(v, header) ==
    IF v = "page" THEN RemoveAll(Or(header, <<>>), "\"")
    ELSE Or(Or(header, header), <<>>)

\* part_001 only: if (!etag) throw new Error("Upload part missing ETag.")
MissingEtagThrows(v, etag) == v = "email" /\ ~Truthy(etag)

\* (a client that does not look at the status of a PUT)
PutFailed_never(res) == FALSE

\* if (!uploadRes.ok) throw new Error(`Failed to upload part ${index + 1}`)
PutFailed(res) == ~ResOk(res)

\* (a callback told of the parts done before this one)
ProgressAfter_before(index, totalParts) == <<index, totalParts>>

\* onProgress(((index + 1) / totalParts) * 100), kept as the fraction <<done, of>>
ProgressAfter(index, totalParts) == <<index + 1, totalParts>>

\* the PUT of a part is answered: uploadFileToR2 up to the next PUT or the complete call
PutResponse ==
    /\ pc = "put"
    /\ \E o \in {"stored", "refused", "rejected"} :
        LET url == TheRequest.url
            real == url # NoUrl
            partNumber == up.index + 1
            stored == real /\ o = "stored"
            res == IF o = "rejected" THEN Rejected
                   ELSE IF stored
                   THEN [body |-> [error |-> Undefined], json |-> FALSE, status |-> 200]
                   ELSE [body |-> [error |-> Undefined], json |-> FALSE,
                         status |-> (IF real THEN 403 ELSE 404)]
            header == IF stored /\ s3.exposes THEN ETagOf(url.PartNumber) ELSE Null
            etag == EtagFrom(variant, header)
            ev == PutResEv(up.file, partNumber, res, up.uploadId, header)
            u == [up EXCEPT !.parts = Append(@, [ETag |-> etag,
                                                 PartNumber |-> partNumber])]
            fileKey == makeFileKey(CurrentFile)
            progress == ProgressAfter(up.index, up.totalParts)
        IN  /\ real \/ o \in {"refused", "rejected"}
            /\ s3' = IF stored
                     THEN [s3 EXCEPT !.parts = @ \cup {<<url.UploadId, url.PartNumber>>}]
                     ELSE s3
            /\ IF o = "rejected"
               THEN Throw(Append(log, ev), FetchRejected) /\ UNCHANGED uiVars
               ELSE IF PutFailed(res)
               THEN /\ Throw(Append(log, ev), <<"Failed to upload part ", Digits[partNumber]>>)
                    /\ UNCHANGED uiVars
               ELSE IF MissingEtagThrows(variant, etag)
               THEN /\ Throw(Append(log, ev), <<"Upload part missing ETag.">>)
                    /\ UNCHANGED uiVars
               ELSE /\ IF sub.phase = "image"
                       THEN /\ imageProgress' = PutKey(imageProgress, fileKey, progress)
                            /\ UNCHANGED videoProgress
                       ELSE /\ videoProgress' = PutKey(videoProgress, fileKey, progress)
                            /\ UNCHANGED imageProgress
                    /\ IF partNumber < up.totalParts
                       THEN SendPut(Append(log, ev), u, up.index + 1)
                       ELSE SendComplete(Append(log, ev), u)
                    /\ UNCHANGED <<form, imageFiles, videoFiles, status, isSubmitting>>
    /\ UNCHANGED <<env, apiReq, apiResp, apiCmds, variant, redirect, nextId, outbox, clicked,
                   laterSteps>>

\* { ...result, name: file.name, label: fileKey }
UploadResult(res, u, file) ==
    [fileUrl |-> res.body.fileUrl, key |-> u.key, label |-> makeFileKey(file),
     name |-> file.name]

\* (a client that goes to /api/submit after its first file)
AfterUpload_first(s) == [s EXCEPT !.index = 0, !.phase = "submit"]

\* (a list of results that grows at its front)
Push_front(uploads, result) == <<result>> \o uploads

\* imageUploads.push({ ...result, name: file.name, label: fileKey })
Push(uploads, result) == Append(uploads, result)

\* the two for loops of handleSubmit: where it stands once a file's result is pushed
AfterUpload(s) ==
    LET listed == IF s.phase = "image" THEN Len(s.imageFiles) ELSE Len(s.videoFiles)
    IN  IF s.index + 1 < listed THEN [s EXCEPT !.index = @ + 1]
        ELSE IF s.phase = "image" /\ Len(s.videoFiles) > 0
        THEN [s EXCEPT !.index = 0, !.phase = "video"]
        ELSE [s EXCEPT !.index = 0, !.phase = "submit"]

\* the complete-multipart request is answered: uploadFileToR2 returns and
\* handleSubmit goes on to the next file, or to /api/submit
CompleteResponse ==
    /\ pc = "complete"
    /\ \E o \in {"ok", "sendThrows", "rejected"} :
        LET be == [location |-> <<"https://bucket.s3", "/">> \o up.key,
                   sendThrows |-> (o = "sendThrows")]
            out == IF o = "rejected" THEN Outcome(Rejected, <<>>)
                   ELSE CompleteMultipartPOST([json |-> TheRequest.body, ok |-> TRUE],
                                              be, env)
            res == out.res
            ev == ResEv("complete", up.file, 0, res, up.uploadId)
            result == UploadResult(res, up, CurrentFile)
            done == IF sub.phase = "image"
                    THEN [sub EXCEPT !.imageUploads = Push(@, result)]
                    ELSE [sub EXCEPT !.videoUploads = Push(@, result)]
            s == AfterUpload(done)
        IN  /\ s3' = IF ResOk(res)
                     THEN [s3 EXCEPT !.objects = @ \cup {up.uploadId},
                                     !.open = @ \ {up.uploadId}]
                     ELSE s3
            /\ IF o = "rejected"
               THEN Throw(Append(log, ev), FetchRejected)
               ELSE IF ~ResOk(res)
               THEN Throw(Append(log, ev), ErrorOf(res, <<"Failed to finalize upload">>))
               ELSE /\ IF s.phase = "submit"
                       THEN SendSubmit(Append(log, ev), s)
                       ELSE SendCreate(Append(log, ev), s, FileOf(s))
                    /\ UNCHANGED <<status, isSubmitting>>
    /\ UNCHANGED <<env, apiReq, apiResp, apiCmds, variant, redirect, uiVars, nextId, outbox,
                   clicked, laterSteps>>

\* the /api/submit request is answered: handleSubmit runs to its end
SubmitResponse ==
    /\ pc = "submit"
    /\ \E o \in {"ok", "hasError", "sendThrows", "rejected"} :
        LET be == [hasError |-> (o = "hasError"),
                   id |-> <<"msg", "-", Digits[Len(outbox) + 1]>>,
                   message |-> <<"rate limited">>,
                   sendThrows |-> (o = "sendThrows"), ticketId |-> "1a2b3c4d"]
        IN  \E out \in { IF o = "rejected" THEN Outcome(Rejected, <<>>)
                         ELSE SubmitPOST([json |-> TheRequest.body, ok |-> TRUE],
                                         be, env) } :
        LET res == out.res
            ev == ResEv("submit", "", 0, res, Undefined)
        IN  /\ outbox' = IF ResOk(res) THEN outbox \o out.cmds ELSE outbox
            /\ IF o = "rejected"
               THEN Throw(Append(log, ev), FetchRejected) /\ UNCHANGED uiVars
               ELSE IF ~ResOk(res)
               THEN /\ Throw(Append(log, ev), ErrorOf(res, <<"Failed to submit form">>))
                    /\ UNCHANGED uiVars
               ELSE /\ status' = Status("success", <<"Submission sent successfully!">>)
                    \* resetForm
                    /\ form' = initialForm(variant)
                    /\ imageFiles' = <<>>
                    /\ videoFiles' = <<>>
                    /\ imageProgress' = EmptyMap
                    /\ videoProgress' = EmptyMap
                    \* finally
                    /\ isSubmitting' = FALSE
                    /\ pc' = "idle"
                    /\ sub' = NoSub
                    /\ up' = NoUp
                    /\ inflight' = {}
                    /\ log' = log \o <<ev, EndEv(TRUE)>>
    /\ redirect' = SuccessEffect(variant, status'.type)
    /\ UNCHANGED <<env, apiReq, apiResp, apiCmds, variant, nextId, s3, clicked,
                   laterSteps>>

\* the timeout of the effect fires: window.location.href = "https://www.athleteclips.com/"
Redirect ==
    /\ redirect = "armed"
    /\ redirect' = "done"
    /\ UNCHANGED <<env, apiReq, apiResp, apiCmds, variant, uiVars, status, isSubmitting,
                   runVars, worldVars, clicked, laterSteps>>

Next ==
    \/ HandleChange
    \/ HandleImageChange
    \/ HandleRemoveImage
    \/ HandleVideoChange
    \/ HandleRemoveVideo
    \/ HandleSubmit
    \/ CreateResponse
    \/ PutResponse
    \/ CompleteResponse
    \/ SubmitResponse
    \/ Redirect

Spec == Init /\ [][Next]_vars

\* every request the page has sent is answered, refused or rejected in the end
Resolving == WF_vars(CreateResponse \/ PutResponse \/ CompleteResponse \/ SubmitResponse)

\* the page once the user has filled in the form and picked the files: an
\* empty or a one-part image or both, and the three-part video; the sender is
\* configured as a bare address
FilledImages == Selections({PhotoA, PhotoB})

FilledWith(imageSelections, videoSelections) ==
    /\ env = [PageEnv EXCEPT !.FROM_EMAIL = OpsAddr]
    /\ apiReq = NoRequest
    /\ apiResp = NoResponse
    /\ apiCmds = <<>>
    /\ \E v \in {"page", "email"}, exposes \in BOOLEAN,
          images \in imageSelections, videos \in videoSelections :
        /\ variant = v
        /\ form = [f \in FormFields(v) |-> <<"Jane">>]
        /\ imageFiles = images
        /\ videoFiles = videos
        /\ imageProgress = AddProgress(EmptyMap, images)
        /\ videoProgress = AddProgress(EmptyMap, videos)
        /\ status = Status("idle", <<>>)
        /\ isSubmitting = FALSE
        /\ pc = "idle"
        /\ sub = NoSub
        /\ up = NoUp
        /\ inflight = {}
        /\ nextId = 1
        /\ s3 = [exposes |-> exposes, objects |-> {}, open |-> {}, parts |-> {}]
        /\ outbox = <<>>
        /\ log = <<>>
        /\ clicked = FALSE
        /\ laterSteps = 0
        /\ redirect = "none"

FilledInit == FilledWith(FilledImages, Selections(VideoCandidates))

\* the user only submits, and submits again
SubmitNext ==
    \/ HandleSubmit
    \/ CreateResponse
    \/ PutResponse
    \/ CompleteResponse
    \/ SubmitResponse
    \/ Redirect

SpecResolving == FilledInit /\ [][SubmitNext]_vars /\ Resolving

\* files that differ from PhotoA and from Clip in content only: same name, size
\* and lastModified
PhotoATwin == [PhotoA EXCEPT !.content = "photo-a-twin"]
ClipTwin == [Clip EXCEPT !.content = "clip-twin"]

\* the form is filled in and nothing is selected yet
NothingSelected == FilledWith({<<>>}, {<<>>})

\* the file inputs, offered a twin of a file among the others
HandleImageChangeTwins == handleImageChange({PhotoA, PhotoATwin, PhotoB})
HandleVideoChangeTwins == handleVideoChange({Clip, ClipTwin})

\* the user picks and removes files, twins among them, and submits
ReselectNext ==
    \/ HandleImageChangeTwins
    \/ HandleRemoveImage
    \/ HandleVideoChangeTwins
    \/ HandleRemoveVideo
    \/ HandleSubmit
    \/ CreateResponse
    \/ PutResponse
    \/ CompleteResponse
    \/ SubmitResponse
    \/ Redirect

SpecReselecting == NothingSelected /\ [][ReselectNext]_vars

----------------------------------------------------------------------------
(* Properties of the route handlers *)

\* n = ceil(S / P): n is the least whole number with n * P >= S
IsCeil(n, S, P) ==
    /\ WLeq(S, WTimes(n, P))
    /\ n = 0 \/ ~WLeq(S, WTimes(n - 1, P))

CreateAnswered == apiReq.endpoint = "create-multipart" /\ apiReq.req.ok

\* C1: for every declared size S >= 0 and P = 10 MiB, create-multipart answers
\* 400 when ceil(S/P) > 10000 and otherwise (the backend not failing) returns
\* exactly ceil(S/P) presigned URLs, for part numbers 1..ceil(S/P) in that
\* order; S = 10000*P is accepted and S = 10000*P + 1 is rejected.
C1_CreateReturnsCeilUrls ==
    CreateAnswered =>
        LET S == apiReq.req.json.size
            P == Bytes(10, 0)
            tooMany == ~WLeq(S, WTimes(10000, P))
            failsAt == apiReq.be.signThrowsAt
            backendFails == \/ apiReq.be.sendThrows
                            \/ failsAt >= 1 /\ ~WLeq(S, WTimes(failsAt - 1, P))
        IN  /\ tooMany => apiResp.status = 400
            /\ (~tooMany /\ ~backendFails) =>
                  /\ apiResp.status = 200
                  /\ IsCeil(Len(apiResp.body.urls), S, P)
                  /\ \A i \in 1..Len(apiResp.body.urls) :
                        apiResp.body.urls[i].PartNumber = i
            /\ (S = Bytes(10 * 10000, 0) /\ ~backendFails) => apiResp.status = 200
            /\ S = Bytes(10 * 10000, 1) => apiResp.status = 400

\* a file of exactly 10000 parts was accepted with 10000 URLs
C1_Witness ==
    /\ CreateAnswered
    /\ apiReq.req.json.size = Bytes(10 * 10000, 0)
    /\ apiResp.status = 200
    /\ Len(apiResp.body.urls) = 10000

IsAscending(parts) ==
    \A i \in 1..(Len(parts) - 1) : parts[i].PartNumber < parts[i + 1].PartNumber

\* C4: complete-multipart, given a parts list in any order, passes the parts to
\* the backend's completion call in ascending PartNumber order.
C4_CompletePassesAscending ==
    (apiReq.endpoint = "complete-multipart" /\ apiReq.req.ok) =>
        \A i \in 1..Len(apiCmds) :
            apiCmds[i].op = "CompleteMultipartUpload" => IsAscending(apiCmds[i].Parts)

Missing(v) == v \in {Undefined, Null, <<>>}

\* base without its trailing slashes: its longest prefix that does not end in one
WithoutTrailingSlashes(base) ==
    LET n == CHOOSE k \in 0..Len(base) :
                /\ k = 0 \/ base[k] # "/"
                /\ \A i \in (k + 1)..Len(base) : base[i] = "/"
    IN  SubSeq(base, 1, n)

\* C14: the fileUrl complete-multipart returns is the public base URL without
\* its trailing slashes, then "/", then the key, when a public base URL is
\* configured; otherwise the Location the backend reported when that is
\* non-empty; otherwise the bare key.
C14_FileUrlPriority ==
    (apiReq.endpoint = "complete-multipart" /\ apiResp.status = 200) =>
        LET base == env.PUBLIC_FILE_BASE_URL
            key == apiReq.req.json.key
            location == apiReq.be.location
        IN  apiResp.body.fileUrl =
                IF ~Missing(base) THEN WithoutTrailingSlashes(base) \o <<"/">> \o key
                ELSE IF ~Missing(location) THEN location
                ELSE key

\* a base with two trailing slashes won over a reported Location
C14_Witness ==
    /\ apiReq.endpoint = "complete-multipart"
    /\ apiResp.status = 200
    /\ env.PUBLIC_FILE_BASE_URL = <<"https://cdn.example", "/", "/">>
    /\ apiReq.be.location = <<"https://bucket.s3", "/", "k">>
    /\ apiResp.body.fileUrl =
          <<"https://cdn.example", "/">> \o StorageKey("n1", <<"clip", ".", "mp4">>)

\* C9: abort-multipart with a missing or empty key or uploadId answers 400 with
\* ok:false and sends nothing to the backend; AbortMultipartUpload is sent only
\* when both are present.
C9_AbortNeedsBoth ==
    apiReq.endpoint = "abort-multipart" =>
        /\ (apiReq.req.ok /\ (Missing(apiReq.req.json.key)
                              \/ Missing(apiReq.req.json.uploadId))) =>
              /\ apiResp.status = 400
              /\ apiResp.body.ok = FALSE
              /\ apiCmds = <<>>
        /\ apiCmds # <<>> =>
              /\ apiReq.req.ok
              /\ ~Missing(apiReq.req.json.key)
              /\ ~Missing(apiReq.req.json.uploadId)
              /\ apiCmds = <<[Key |-> apiReq.req.json.key,
                              UploadId |-> apiReq.req.json.uploadId,
                              op |-> "AbortMultipartUpload"]>>
        /\ (apiReq.req.ok /\ ~Missing(apiReq.req.json.key)
                          /\ ~Missing(apiReq.req.json.uploadId)) => apiCmds # <<>>

\* an abort with a key but an empty uploadId was refused
C9_Witness ==
    /\ apiReq.endpoint = "abort-multipart"
    /\ apiReq.req.ok
    /\ ~Missing(apiReq.req.json.key)
    /\ apiReq.req.json.uploadId = <<>>
    /\ apiResp.status = 400

ConfigOk ==
    /\ env.RESEND_API_KEY = <<"re_123">>
    /\ env.FROM_EMAIL \in GoodFromEmails
    /\ env.OWNER_EMAIL \in GoodOwnerEmails

ConfigError ==
    IF env.RESEND_API_KEY # <<"re_123">> THEN <<"RESEND_API_KEY not configured.">>
    ELSE IF env.FROM_EMAIL \notin GoodFromEmails
    THEN <<"FROM_EMAIL must be a valid email or formatted as 'Name <email@example.com>'.">>
    ELSE <<"OWNER_EMAIL must be configured with a valid email address.">>

WellFormedEmail(t) ==
    LET ats == { i \in 1..Len(t) : t[i] = "@" }
    IN  /\ \A i \in 1..Len(t) : t[i] \notin {" ", "<", ">", "\"", "'", "@"} \/ i \in ats
        /\ Cardinality(ats) = 1
        /\ \A p \in ats : p > 1 /\ \E j \in (p + 2)..(Len(t) - 1) : t[j] = "."

\* a sender setting of one of the two forms, blanks around it and quotes around
\* it set aside: a bare well-formed email, or Display Name <email>
SenderFormOk(v) ==
    /\ IsString(v)
    /\ LET t == Trim(v)
           u == IF StartsEndsWith(t, "\"") \/ StartsEndsWith(t, "'")
                THEN Trim(SubSeq(t, 2, Len(t) - 1)) ELSE t
       IN  \/ WellFormedEmail(u)
           \/ \E k \in 2..(Len(u) - 2) :
                /\ u[k] = "<"
                /\ u[Len(u)] = ">"
                /\ Trim(SubSeq(u, 1, k - 1)) # <<>>
                /\ WellFormedEmail(Trim(SubSeq(u, k + 1, Len(u) - 1)))

FromEmailRefused ==
    /\ apiResp.status = 400
    /\ apiResp.body.error =
        <<"FROM_EMAIL must be a valid email or formatted as 'Name <email@example.com>'.">>

\* C15: the sender setting is accepted when it is a bare well-formed email or
\* of the form Display Name <email> with a well-formed email, and refused
\* (400) for every other value, whatever FROM_NAME is: "ops@example.com" and
\* "Ops Team <ops@example.com>" are accepted, "not-an-email" and
\* "Ops Team <not-an-email>" are refused.
C15_SenderForms ==
    (apiReq.endpoint = "submit" /\ env.RESEND_API_KEY = <<"re_123">>) =>
        /\ FromEmailRefused <=> ~SenderFormOk(env.FROM_EMAIL)
        /\ env.FROM_EMAIL \in { OpsAddr, <<"Ops", " ", "Team", " ", "<">> \o OpsAddr \o <<">">> }
              => ~FromEmailRefused
        /\ env.FROM_EMAIL \in { <<"not-an-email">>,
                                <<"Ops", " ", "Team", " ", "<", "not-an-email", ">">> }
              => FromEmailRefused

\* the well-formed addresses form.email gives once trimmed (none when it is
\* absent, not a string, or malformed)
SubmitterAddresses(fm) ==
    { a \in { TrimEnd(TrimStart(fm[i].value)) :
                i \in { k \in 1..Len(fm) : fm[k].name = "email" /\ fm[k].type = "str" } } :
        WellFormedEmail(a) }

\* C19: the email /submit sends goes to the configured owner address; it
\* carries a reply-to exactly when the trimmed form.email is a well-formed
\* address, and then the reply-to is that address; with form.email absent, not
\* a string or malformed there is no reply-to and the email is sent all the same.
C19_ReplyTo ==
    (apiReq.endpoint = "submit" /\ ConfigOk /\ apiReq.req.ok) =>
        /\ Len(apiCmds) = 1
        /\ apiCmds[1].op = "emails.send"
        /\ apiCmds[1].to = TrimEnd(TrimStart(env.OWNER_EMAIL))
        /\ LET valid == SubmitterAddresses(apiReq.req.json.form)
           IN  IF valid = {} THEN apiCmds[1].reply_to = Undefined
               ELSE apiCmds[1].reply_to \in valid

\* an email went out with the reply-to taken from a padded form.email
C19_Witness ==
    /\ apiReq.endpoint = "submit"
    /\ apiResp.status = 200
    /\ FormGet(apiReq.req.json.form, "email").value = <<" ">> \o JaneAddr
    /\ Len(apiCmds) = 1
    /\ apiCmds[1].reply_to = JaneAddr
    /\ apiCmds[1].to = OwnerAddr

\* C12: every endpoint (create-multipart, complete-multipart, abort-multipart,
\* submit) answers a request whose body is not valid JSON with 400 and a
\* descriptive error message, and calls neither the storage backend nor the
\* email provider for it.
C12_BadJsonIs400 ==
    (apiReq.endpoint # "none" /\ ~apiReq.req.ok) =>
        /\ apiResp.status = 400
        /\ apiResp.json
        /\ Truthy(apiResp.body.error)
        /\ apiCmds = <<>>

----------------------------------------------------------------------------
(* Properties of the page *)

LogIdx == 1..Len(log)
IsEv(e, dir, kind) == e.dir = dir /\ e.kind = kind
Where(dir, kind) == { i \in LogIdx : IsEv(log[i], dir, kind) }

\* the sessions the client has been handed or has used
Sessions == { log[i].uploadId : i \in { j \in LogIdx : log[j].uploadId # Undefined } }

PutsOf(id) == { i \in Where("req", "put") : log[i].uploadId = id }

\* C2: for every file of any size (size 0 included) the parts list sent to
\* complete-multipart numbers its parts exactly 1..ceil(size/partSize), one
\* entry per part number, and the client performs as many part transfers as
\* the initiator returned presigned URLs.
C2_PartsMatchUrls ==
    pc \in {"put", "complete"} =>
        /\ Cardinality(PutsOf(up.uploadId)) <= Len(up.urls)
        /\ pc = "complete" =>
              LET parts == TheRequest.body.parts
              IN  /\ Cardinality(PutsOf(up.uploadId)) = Len(up.urls)
                  /\ IsCeil(Len(parts), CurrentFile.size, up.partSize)
                  /\ \A i \in 1..Len(parts) : parts[i].PartNumber = i

\* C3: every session the client holds has exactly one create-multipart
\* answer that handed it out, all its part transfers after that answer and
\* before its completion request, at most one completion request, and no
\* abort request at all.
C3_SessionSingleUse ==
    /\ \A i \in LogIdx : log[i].kind # "abort"
    /\ \A id \in Sessions :
        LET creates == { i \in Where("res", "create") : log[i].uploadId = id }
            completes == { i \in Where("req", "complete") : log[i].uploadId = id }
        IN  /\ Cardinality(creates) = 1
            /\ Cardinality(completes) <= 1
            /\ \A p \in PutsOf(id) : \A c \in creates : c < p
            /\ \A p \in PutsOf(id) : \A t \in completes : p < t

\* two sessions side by side: the first completed, the second with a part sent
C3_Witness ==
    \E a, b \in Sessions :
        /\ a # b
        /\ \E i \in Where("res", "complete") : log[i].uploadId = a /\ log[i].ok
        /\ Cardinality(PutsOf(a)) = 1
        /\ Cardinality(PutsOf(b)) = 3

\* a PUT that the backend answered with a non-success status
RefusedPuts == { j \in Where("res", "put") : ~log[j].ok /\ log[j].status # 0 }

\* C5: when the PUT of part i is answered with a non-success status the
\* upload ends in an error right there: nothing more is requested for that
\* session (no second PUT of part i, no later part, no completion), and no
\* part of any session is PUT twice.
C5_FailedPartIsFatal ==
    /\ \A j \in RefusedPuts :
        /\ j < Len(log)
        /\ log[j + 1] = EndEv(FALSE)
        /\ \A k \in LogIdx : k > j => log[k].uploadId # log[j].uploadId
        /\ j + 1 = Len(log) => status.type = "error" /\ pc = "idle" /\ inflight = {}
    /\ \A a, b \in Where("req", "put") :
        (log[a].uploadId = log[b].uploadId /\ log[a].part = log[b].part) => a = b

\* part 2 of a three-part file was refused after part 1 went through
C5_Witness ==
    \E j \in RefusedPuts :
        /\ log[j].part = 2
        /\ Cardinality(PutsOf(log[j].uploadId)) = 2
        /\ <<log[j].uploadId, 1>> \in s3.parts

\* C13: a part transfer answered with success but without an ETag header
\* fails the upload of the file: handleSubmit ends in an error right there (no
\* later part, no completion), and complete-multipart is never requested with
\* an empty ETag.
C13_MissingEtagIsFatal ==
    /\ \A j \in Where("res", "put") : (log[j].ok /\ log[j].etag = Null) =>
        j < Len(log) /\ log[j + 1] = EndEv(FALSE)
    /\ pc = "complete" =>
        \A i \in 1..Len(TheRequest.body.parts) : TheRequest.body.parts[i].ETag # <<>>

\* an upload call that did not succeed: a non-success answer or a rejected fetch
Failing(e) == e.dir = "res" /\ e.kind \in {"create", "put", "complete"} /\ ~e.ok

\* the message the page shows for it
FailureMessage(e) ==
    IF e.status = 0 THEN <<"Failed to fetch">>
    ELSE IF e.kind = "create" THEN <<"Failed to start upload">>
    ELSE IF e.kind = "put" THEN <<"Failed to upload part ", Digits[e.part]>>
    ELSE <<"Failed to finalize upload">>

\* C6: when create-multipart, a part transfer or complete-multipart fails
\* during handleSubmit, handleSubmit ends at once: no later file, no
\* /api/submit call, status error with the failure's message; the client
\* never asks for an abort, so the failed session stays open on the backend
\* and the files finalized before stay stored.
C6_FailureStopsSubmission ==
    /\ \A j \in LogIdx : Failing(log[j]) =>
        /\ j < Len(log)
        /\ log[j + 1] = EndEv(FALSE)
        /\ log[j].uploadId # Undefined => log[j].uploadId \in s3.open
        /\ j + 1 = Len(log) =>
              /\ status = Status("error", FailureMessage(log[j]))
              /\ ~isSubmitting
              /\ inflight = {}
    /\ \A j \in LogIdx : log[j] = EndEv(FALSE) =>
        j = Len(log) /\ status.type = "error" /\ ~isSubmitting /\ inflight = {}
    /\ \A j \in LogIdx : log[j].kind # "abort"
    /\ \A j \in Where("res", "complete") : log[j].ok => log[j].uploadId \in s3.objects

\* the second file failed after the first was finalized
C6_Witness ==
    /\ Len(log) >= 2
    /\ Failing(log[Len(log) - 1])
    /\ log[Len(log) - 1].kind = "complete"
    /\ log[Len(log) - 1].uploadId \in s3.open
    /\ s3.objects # {}
    /\ status.type = "error"

Contents(files) == [i \in 1..Len(files) |-> files[i].content]
IsCreateReq(e) == IsEv(e, "req", "create")
IsCompleted(e) == IsEv(e, "res", "complete") /\ e.ok
FilesIn(events) == [i \in 1..Len(events) |-> events[i].file]

\* C7: at most one request is in flight; a request is answered before the
\* next is sent; within a submission the files are started in list order,
\* images first, each only after complete-multipart has returned for the one
\* before; /api/submit is sent only after complete-multipart has returned
\* for every selected image and video.
C7_OneAtATimeInOrder ==
    /\ Cardinality(inflight) <= 1
    /\ \A j \in LogIdx : log[j].dir = "req" =>
        IF j = Len(log) THEN inflight # {}
        ELSE log[j + 1].dir = "res" /\ log[j + 1].kind = log[j].kind
    /\ pc # "idle" =>
        LET order == Contents(sub.imageFiles \o sub.videoFiles)
            created == FilesIn(SelectSeq(log, IsCreateReq))
            completed == FilesIn(SelectSeq(log, IsCompleted))
        IN  /\ Len(created) <= Len(order)
            /\ created = SubSeq(order, 1, Len(created))
            /\ completed = SubSeq(order, 1, Len(completed))
            /\ pc # "submit" => Len(completed) = Len(created) - 1
            /\ sub.phase = "video" => Len(completed) >= Len(sub.imageFiles)
            /\ pc = "submit" => completed = order

\* /api/submit is out for two images and a video
C7_Witness ==
    /\ pc = "submit"
    /\ Len(sub.imageFiles) = 2
    /\ Len(sub.videoFiles) = 1
    /\ Len(sub.imageUploads) = 2

\* C17: when /api/submit answers with success the form controller's state is
\* reset (every form field empty, no image or video selected, both progress
\* maps empty), status is success, and the browser is set to go to the home
\* site.
C17_SuccessResetsAndRedirects ==
    [][(SubmitResponse /\ status'.type = "success") =>
          /\ DOMAIN form' = FormFields(variant)
          /\ \A f \in DOMAIN form' : form'[f] = <<>>
          /\ imageFiles' = <<>>
          /\ videoFiles' = <<>>
          /\ DOMAIN imageProgress' = {}
          /\ DOMAIN videoProgress' = {}
          /\ ~isSubmitting'
          /\ redirect' = "armed"]_vars

Blank(str) == \A i \in 1..Len(str) : str[i] = " "

\* the picked file of a given content
FileBy(content) ==
    CHOOSE f \in ImageCandidates \cup VideoCandidates : f.content = content

OkPutsOf(id) == { i \in Where("res", "put") : log[i].uploadId = id /\ log[i].ok }
CompletesOf(id) == { i \in Where("req", "complete") : log[i].uploadId = id }
Succeeded == log # <<>> /\ log[Len(log)] = EndEv(TRUE)

\* every URL of urls is the file URL of one of the uploads
Lists(urls, uploads) ==
    /\ Len(urls) = Len(uploads)
    /\ \A i \in 1..Len(uploads) :
        /\ Truthy(uploads[i].fileUrl)
        /\ \E k \in 1..Len(urls) : urls[k] = uploads[i].fileUrl

\* C16: in a fully successful submission, for each file needing n parts
\* (n = 3 for the 25 MB video at 10 MiB parts) the client obtains n presigned
\* URLs, performs n part transfers and makes one complete-multipart call
\* carrying n parts numbered 1..n in order; it then makes exactly one
\* /api/submit call, whose email carries the submitted first name and the
\* fileUrl of every uploaded image and video.
C16_SuccessfulSubmission ==
    /\ [](/\ pc \in {"put", "complete"} =>
              IsCeil(Len(up.urls), CurrentFile.size, PART_SIZE)
          /\ pc = "complete" =>
              LET parts == TheRequest.body.parts
              IN  /\ IsCeil(Len(parts), CurrentFile.size, PART_SIZE)
                  /\ \A i \in 1..Len(parts) : parts[i].PartNumber = i
          /\ \A j \in Where("res", "complete") : log[j].ok =>
              /\ IsCeil(Cardinality(OkPutsOf(log[j].uploadId)),
                        FileBy(log[j].file).size, PART_SIZE)
              /\ Cardinality(CompletesOf(log[j].uploadId)) = 1
          /\ pc = "submit" =>
              /\ Len(sub.imageUploads) = Len(sub.imageFiles)
              /\ Len(sub.videoUploads) = Len(sub.videoFiles)
          /\ Cardinality(Where("req", "submit")) <= 1
          /\ pc = "submit" \/ Succeeded => Cardinality(Where("req", "submit")) = 1
          /\ pc \in {"create", "put", "complete"} => Where("req", "submit") = {})
    /\ [][(SubmitResponse /\ status'.type = "success") =>
            /\ Len(outbox') = Len(outbox) + 1
            /\ LET html == outbox'[Len(outbox')].html
               IN  /\ \E i \in 1..Len(html.formRows) :
                        /\ html.formRows[i].name = "playerFirstName"
                        /\ html.formRows[i].value = sub.form["playerFirstName"]
                        /\ ~Blank(html.formRows[i].value)
                   /\ Lists(html.imageList, sub.imageUploads)
                   /\ Lists(html.videoList, sub.videoUploads)]_vars

\* one image and the 25 MB video went through: two uploads, three parts of the
\* video stored, an email with Jane's name and one URL of each kind
C16_Witness ==
    /\ Succeeded
    /\ Cardinality(Where("req", "create")) = 2
    /\ \E j \in Where("res", "complete") :
        /\ log[j].file = Clip.content
        /\ Cardinality(OkPutsOf(log[j].uploadId)) = 3
    /\ outbox # <<>>
    /\ LET html == outbox[Len(outbox)].html
       IN  /\ Len(html.imageList) = 1
           /\ Len(html.videoList) = 1
           /\ \E i \in 1..Len(html.formRows) :
                html.formRows[i] = [name |-> "playerFirstName", value |-> <<"Jane">>]

\* C18: the ETag that uploadFileToR2 sends for PartNumber i in the complete
\* call is exactly the string the storage backend returned in the ETag header
\* of the answer to the PUT of part i, unmodified.
C18_EtagVerbatim ==
    pc = "complete" =>
        LET parts == TheRequest.body.parts
        IN  \A i \in 1..Len(parts) :
              \A j \in OkPutsOf(TheRequest.body.uploadId) :
                (log[j].part = parts[i].PartNumber /\ log[j].etag # Null) =>
                    parts[i].ETag = log[j].etag

\* C20: for a file of size S > 0 and part size P, part i carries the bytes
\* [(i-1)*P, min(i*P, S)) and is PUT to the i-th presigned URL; the ranges are
\* non-empty, each starts where the one before ended, the first starts at 0
\* and the last ends at S.
C20_PartRanges ==
    (pc = "put" /\ WLess(Bytes(0, 0), CurrentFile.size)) =>
        LET i == up.index + 1
            S == CurrentFile.size
            P == up.partSize
            range == TheRequest.body
        IN  /\ P = Bytes(10, 0)
            /\ i \in 1..Len(up.urls)
            /\ TheRequest.url = up.urls[i]
            /\ TheRequest.url.PartNumber = i
            /\ range.file = CurrentFile.content
            /\ range.start = Bytes(10 * (i - 1), 0)
            /\ range.end = IF WLeq(Bytes(10 * i, 0), S) THEN Bytes(10 * i, 0) ELSE S
            /\ WLess(range.start, range.end)
            /\ i = 1 => range.start = Bytes(0, 0)
            /\ i < Len(up.urls) => range.end = Bytes(10 * i, 0)
            /\ i = Len(up.urls) => range.end = S

\* the third and last part of the 25 MB clip is on its way: bytes from 20 MiB
\* to the end of the file
C20_Witness ==
    /\ pc = "put"
    /\ CurrentFile = Clip
    /\ up.index = 2
    /\ TheRequest.body.start = Bytes(20, 0)
    /\ TheRequest.body.end = TwentyFiveMB
    /\ TheRequest.url.PartNumber = 3

\* a required input is missing
InputMissing ==
    \/ Blank(form["playerFirstName"])
    \/ Blank(form["playerLastName"])
    \/ Blank(form["videoCutInstructions"])
    \/ variant = "email" /\ Blank(form["email"])
    \/ imageFiles = <<>>
    \/ videoFiles = <<>>

\* C8: handleSubmit entered while a required input is missing (a name or the
\* cut instructions blank after trimming, no image, no video, in the e-mail
\* variant a blank email) sets status to error and returns with no request
\* sent: nothing in flight, nothing but its own entry added to the log.
C8_ValidationBeforeNetwork ==
    [][(HandleSubmit /\ InputMissing) =>
          /\ status'.type = "error"
          /\ ~isSubmitting'
          /\ inflight' = {}
          /\ pc' = "idle"
          /\ log' = <<StartEv(FALSE)>>]_vars

\* a submission with everything filled in but no image was turned down
C8_Witness ==
    /\ log # <<>>
    /\ log[Len(log)] = StartEv(FALSE)
    /\ \A f \in FormFields(variant) : form[f] = <<"Jane">>
    /\ imageFiles = <<>>
    /\ videoFiles # <<>>
    /\ status = Status("error", <<"Please upload at least one image.">>)
    /\ inflight = {}

\* the progress map of the list the running upload belongs to, and the other one
OwnProgress == IF sub.phase = "image" THEN imageProgress ELSE videoProgress
OtherProgress == IF sub.phase = "image" THEN videoProgress ELSE imageProgress

\* C21: while a file of n parts is uploaded, each part that completes is
\* reported once, as i/n (of 100) after part i: more than what was reported
\* for the part before, never above 100, and 100 exactly with the last part,
\* upon which the complete call goes out; a part that failed reports nothing.
C21_ProgressPerPart ==
    [][PutResponse =>
        LET i == up.index + 1
            n == up.totalParts
            fileKey == makeFileKey(CurrentFile)
            reported == OwnProgress'[fileKey]
        IN  IF pc' \in {"put", "complete"}
            THEN /\ fileKey \in DOMAIN OwnProgress'
                 /\ reported[1] * n = i * reported[2]
                 /\ reported[1] <= reported[2]
                 /\ reported[1] * n > (i - 1) * reported[2]
                 /\ Cardinality(OkPutsOf(up.uploadId)') = i
                 /\ (reported[1] = reported[2]) <=> (pc' = "complete")
                 /\ pc' = "complete" => log'[Len(log')] = ReqEv("complete", up.file, 0, up.uploadId)
                 /\ \A k \in DOMAIN OwnProgress' \ {fileKey} :
                        k \in DOMAIN OwnProgress /\ OwnProgress'[k] = OwnProgress[k]
                 /\ OtherProgress' = OtherProgress
            ELSE /\ pc' = "idle"
                 /\ imageProgress' = imageProgress
                 /\ videoProgress' = videoProgress]_vars

\* two of the three parts of the clip are stored and reported, the third is on
\* its way
C21_Witness ==
    /\ pc = "put"
    /\ CurrentFile = Clip
    /\ up.index = 2
    /\ makeFileKey(Clip) \in DOMAIN videoProgress
    /\ videoProgress[makeFileKey(Clip)] = <<2, 3>>

\* the multipart upload was created and the signing of one of its parts failed
SigningFailed ==
    /\ CreateAnswered
    /\ ~apiReq.be.sendThrows
    /\ WLeq(apiReq.req.json.size, WTimes(10000, Bytes(10, 0)))
    /\ apiReq.be.signThrowsAt >= 1
    /\ ~WLeq(apiReq.req.json.size, WTimes(apiReq.be.signThrowsAt - 1, Bytes(10, 0)))

\* C22: when create-multipart has created the upload and the signing of a
\* part's URL then fails, the request fails (a 5xx that carries no URL) and
\* nothing is sent to the backend after the failed signing: no abort, so the
\* upload it created stays open.
C22_NoCleanupAfterSigningFails ==
    SigningFailed =>
        /\ apiResp.status >= 500
        /\ ~apiResp.json
        /\ DOMAIN apiResp.body = {"error"}
        /\ apiCmds # <<>>
        /\ apiCmds[1].op = "CreateMultipartUpload"
        /\ \A i \in 2..Len(apiCmds) : apiCmds[i].op = "getSignedUrl"
        /\ Len(apiCmds) = apiReq.be.signThrowsAt

\* the 25 MB file: the upload was created, URL 1 signed, URL 2 failed
C22_Witness ==
    /\ SigningFailed
    /\ apiReq.req.json.size = TwentyFiveMB
    /\ apiReq.be.signThrowsAt = 2
    /\ apiResp.status = 500
    /\ Len(apiCmds) = 2

\* in the log l: the file of content c had its upload created, all its parts
\* stored and its upload completed
UploadedIn(l, c) ==
    \E j \in 1..Len(l) :
        /\ IsEv(l[j], "res", "create") /\ l[j].ok /\ l[j].file = c
        /\ IsCeil(Cardinality({ k \in 1..Len(l) : /\ IsEv(l[k], "res", "put") /\ l[k].ok
                                                   /\ l[k].uploadId = l[j].uploadId }),
                  FileBy(c).size, PART_SIZE)
        /\ \E k \in 1..Len(l) : /\ IsEv(l[k], "res", "complete") /\ l[k].ok
                                  /\ l[k].uploadId = l[j].uploadId

\* in the log l: some request was refused, failed or was rejected
SomeFailureIn(l) == \E j \in 1..Len(l) : l[j].dir = "res" /\ ~l[j].ok

\* C23: status becomes success only when, in that submission, every selected
\* image and video had its create call, all its part transfers and its
\* complete call succeed and /api/submit answered with success; every other
\* outcome of a submission that passed validation sets status to error.
C23_SuccessOnlyIfAllSucceeded ==
    /\ [](/\ status.type = "success" => Succeeded
          /\ pc # "idle" => status.type = "idle")
    /\ [][(pc # "idle" /\ pc' = "idle") =>
            IF status'.type = "success"
            THEN /\ pc = "submit"
                 /\ ~SomeFailureIn(log')
                 /\ \A i \in 1..Len(sub.imageFiles) : UploadedIn(log', sub.imageFiles[i].content)
                 /\ \A i \in 1..Len(sub.videoFiles) : UploadedIn(log', sub.videoFiles[i].content)
                 /\ sub.imageFiles # <<>> /\ sub.videoFiles # <<>>
                 /\ IsEv(log'[Len(log') - 1], "res", "submit")
                 /\ log'[Len(log') - 1].ok
                 /\ log'[Len(log')] = EndEv(TRUE)
            ELSE /\ status'.type = "error"
                 /\ log'[Len(log')] = EndEv(FALSE)]_vars

\* the two uploads went through and /api/submit answered 502: status is error
C23_Witness ==
    /\ pc = "idle"
    /\ status.type = "error"
    /\ Len(log) > 2
    /\ IsEv(log[Len(log) - 1], "res", "submit")
    /\ log[Len(log) - 1].status = 502
    /\ Cardinality({ j \in Where("res", "complete") : log[j].ok }) = 2

Ended == pc = "idle" /\ ~isSubmitting /\ status.type \in {"success", "error"}

\* C24: a submission that passed validation ends, given that each request is
\* answered or rejected in the end: isSubmitting is true from the first upload
\* to the end, and at the end it is false and status is success or error,
\* whichever step failed or succeeded.
C24_SubmissionEnds ==
    /\ [](isSubmitting <=> pc # "idle")
    /\ [][(pc # "idle" /\ pc' = "idle") =>
            /\ ~isSubmitting'
            /\ status'.type \in {"success", "error"}]_vars
    /\ (pc # "idle") ~> Ended

\* a submission ended at its first request: create-multipart was rejected
C24_Witness ==
    /\ Ended
    /\ Len(log) = 4
    /\ IsEv(log[3], "res", "create")
    /\ log[3].status = 0
    /\ log[4] = EndEv(FALSE)

-----------------------------------------------------------------------------
(* One submission at a time *)

\* C25: at most one submission is in flight at any time: while isSubmitting is
\* true the submit control is disabled, so handleSubmit starts only when no
\* submission is running and no request is out; the log of a submission holds
\* one entry of handleSubmit only, and the one request in flight is the one
\* the running submission waits for
C25_OneSubmissionAtATime ==
    /\ [](/\ isSubmitting <=> pc # "idle"
          /\ isSubmitting => SubmitDisabled
          /\ Cardinality(inflight) <= 1
          /\ inflight # {} <=> pc # "idle"
          /\ \A r \in inflight : r.kind = pc
          /\ Where("start", "handleSubmit") \subseteq {1})
    /\ [][HandleSubmit => /\ ~isSubmitting /\ pc = "idle" /\ inflight = {}
                          /\ (log # <<>> /\ log[1].ok => log[Len(log)].dir = "end")]_vars

\* a second submission has started, after the first one opened a session and failed
C25_Witness ==
    /\ pc = "create" /\ isSubmitting /\ laterSteps = 1
    /\ s3.open # {}
    /\ log = <<StartEv(TRUE), log[2]>>

-----------------------------------------------------------------------------
(* The selection a submission works on *)

\* the files uploadFileToR2 has been called for, in the order of the calls
Started(l) == FilesIn(SelectSeq(l, IsCreateReq))

\* C26: the files a submission uploads are exactly the image and video
\* selections as they were when handleSubmit was invoked: no step of a running
\* submission, and no addition or removal made meanwhile, changes the lists
\* it works on; the files it starts are those lists in order, images first;
\* a submission that ends in success has started every one of them and no
\* other file, and the reset leaves both selections empty.
C26_SelectionAtSubmit ==
    /\ [](pc # "idle" =>
            /\ Len(Started(log)) <= Len(sub.imageFiles) + Len(sub.videoFiles)
            /\ Started(log) = SubSeq(Contents(sub.imageFiles \o sub.videoFiles), 1,
                                     Len(Started(log))))
    /\ [][(HandleSubmit /\ isSubmitting') =>
            /\ sub'.imageFiles = imageFiles
            /\ sub'.videoFiles = videoFiles]_vars
    /\ [][(pc # "idle" /\ pc' # "idle") =>
            /\ sub'.imageFiles = sub.imageFiles
            /\ sub'.videoFiles = sub.videoFiles]_vars
    /\ [][(pc # "idle" /\ status'.type = "success") =>
            /\ Started(log') = Contents(sub.imageFiles \o sub.videoFiles)
            /\ imageFiles' = <<>>
            /\ videoFiles' = <<>>]_vars

\* /api/submit is out for two images while a third, picked after the click, is selected
C26_Witness ==
    /\ pc = "submit"
    /\ Len(sub.imageFiles) = 2
    /\ Len(imageFiles) = 3
    /\ Len(Started(log)) = 3

-----------------------------------------------------------------------------
(* Progress maps and selections *)

\* C27: after any interleaving of file additions, file removals, submissions
\* and progress callbacks, the set of keys in each progress map equals the set
\* of synthetic keys of the files selected in the matching list; a file
\* removed while it is being uploaded leaves no progress entry behind.
C27_ProgressKeysAreSelected ==
    /\ DOMAIN imageProgress = KeysOf(imageFiles)
    /\ DOMAIN videoProgress = KeysOf(videoFiles)

-----------------------------------------------------------------------------
(* Synthetic keys *)

NoTwoWithOneKey(files) ==
    \A i, j \in 1..Len(files) : i # j => makeFileKey(files[i]) # makeFileKey(files[j])

\* a selection: the entries that were listed keep their places and their keys,
\* a selection of listed keys only leaves the length as it was, and the
\* progress recorded under a key stays
SelectedInPlace(files, files2, progress, progress2) ==
    /\ Len(files2) >= Len(files)
    /\ \A i \in 1..Len(files) : makeFileKey(files2[i]) = makeFileKey(files[i])
    /\ KeysOf(files2) = KeysOf(files) => Len(files2) = Len(files)
    /\ \A k \in DOMAIN progress : k \in DOMAIN progress2 /\ progress2[k] = progress[k]

\* a removal: one entry goes, with its progress; the others stay as they were
RemovedOne(files, files2, progress, progress2) ==
    \E i \in 1..Len(files) :
        /\ files2 = SubSeq(files, 1, i - 1) \o SubSeq(files, i + 1, Len(files))
        /\ DOMAIN progress2 = DOMAIN progress \ {makeFileKey(files[i])}
        /\ \A k \in DOMAIN progress2 : progress2[k] = progress[k]

\* C28: after any sequence of file additions and removals no two files in the
\* image list, and no two in the video list, have the same synthetic key
\* name-size-lastModified: selecting a file whose key is present replaces
\* that entry in place and leaves the list length and the recorded progress
\* unchanged, and removing a key removes exactly the file with that key.
C28_KeysAreUnique ==
    /\ [](NoTwoWithOneKey(imageFiles) /\ NoTwoWithOneKey(videoFiles))
    /\ [][HandleImageChangeTwins =>
            SelectedInPlace(imageFiles, imageFiles', imageProgress, imageProgress')]_vars
    /\ [][HandleVideoChangeTwins =>
            SelectedInPlace(videoFiles, videoFiles', videoProgress, videoProgress')]_vars
    /\ [][HandleRemoveImage =>
            RemovedOne(imageFiles, imageFiles', imageProgress, imageProgress')]_vars
    /\ [][HandleRemoveVideo =>
            RemovedOne(videoFiles, videoFiles', videoProgress, videoProgress')]_vars

\* photo-a was uploaded in a submission that failed, and its twin has taken
\* its place in the list, before the second image, under the progress of photo-a
C28_Witness ==
    /\ pc = "idle"
    /\ status.type = "error"
    /\ imageFiles = <<PhotoATwin, PhotoB>>
    /\ imageProgress[makeFileKey(PhotoA)] = ProgressAfter(0, 1)
    /\ \E i \in LogIdx : IsCreateReq(log[i]) /\ log[i].file = PhotoA.content

-----------------------------------------------------------------------------
(* The lists of the /api/submit request *)

\* the value the form object of a request body has under a name
FormValue(fm, name) == fm[CHOOSE i \in 1..Len(fm) : fm[i].name = name].value

\* key is the storage key create-multipart gave to this file: the key of the
\* n-th upload carries the file's name, and the upload that complete-multipart
\* confirmed for the file is the n-th
KeyIsOf(key, file) ==
    \E n \in 1..Len(Nonces) :
        /\ key = StorageKey(Nonces[n], file.name)
        /\ \E j \in LogIdx : /\ IsCompleted(log[j])
                              /\ log[j].file = file.content
                              /\ log[j].uploadId = UploadIdOf(n)

\* urls and keys are the lists of the files, entry by entry
ListedFor(urls, keys, files) ==
    /\ Len(urls) = Len(files)
    /\ Len(keys) = Len(files)
    /\ \A i \in 1..Len(files) :
        /\ KeyIsOf(keys[i], files[i])
        /\ urls[i] = WithoutTrailingSlashes(env.PUBLIC_FILE_BASE_URL) \o <<"/">> \o keys[i]

\* C29: in the /api/submit request of a successful upload phase imageUrls has
\* one entry per selected image and videoUrls one per selected video, each in
\* the order of the files in the selection list, and the i-th entry of
\* uploadedImageKeys (uploadedVideoKeys) is the storage key of the same file
\* as the i-th entry of imageUrls (videoUrls).
C29_ListsFollowSelection ==
    pc = "submit" =>
        LET body == TheRequest.body
        IN  /\ ListedFor(body.imageUrls, FormValue(body.form, "uploadedImageKeys"),
                         sub.imageFiles)
            /\ ListedFor(body.videoUrls, FormValue(body.form, "uploadedVideoKeys"),
                         sub.videoFiles)

\* /api/submit is out for the two-part image before the one-part image, and a video
C29_Witness ==
    /\ pc = "submit"
    /\ Contents(sub.imageFiles) = <<PhotoC.content, PhotoA.content>>
    /\ Len(TheRequest.body.imageUrls) = 2
    /\ Len(TheRequest.body.videoUrls) = 1

-----------------------------------------------------------------------------
(* The part-count limit *)

\* C30: when create-multipart rejects a request because the part count
\* exceeds 10,000 it does so before any call to the storage backend: the
\* answer is 400 whatever the backend would have done, no multipart upload is
\* created and no URL is presigned.
C30_RejectsBeforeBackend ==
    CreateAnswered =>
        /\ ~WLeq(apiReq.req.json.size, WTimes(10000, Bytes(10, 0))) =>
              /\ apiResp.status = 400
              /\ apiCmds = <<>>
        /\ apiResp.status = 400 => apiCmds = <<>>

\* a file of one byte more than 10,000 parts was refused, with a backend that
\* would have failed had it been called
C30_Witness ==
    /\ CreateAnswered
    /\ apiReq.req.json.size = Bytes(10 * 10000, 1)
    /\ apiReq.be.sendThrows
    /\ apiResp.status = 400
    /\ apiCmds = <<>>

============================================================================
